---- MODULE Spec2Model ----
(***************************************************************************)
(* Model of sql-to-drizzle-schema: the PostgreSQL DDL parser               *)
(* (internal/parser/postgres.go) and the schema generator                  *)
(* (internal/generator/postgres.go): type mapper, naming cases, code       *)
(* emitter and dependency sorter.                                          *)
(*                                                                         *)
(* Go strings are modelled as sequences of one-character strings, so that  *)
(* the scanners and the regular expressions of the source are computed     *)
(* character by character.                                                 *)
(***************************************************************************)
EXTENDS Integers, Sequences, FiniteSets, TLC

VARIABLES
    \* ---- sortTablesByDependencies (generator/postgres.go:241-280)
    tables,      \* the input slice of parser.Table
    tableMap,    \* map[string]parser.Table
    visited,     \* names with visited[name] = true
    visiting,    \* names with visiting[name] = true
    sorted,      \* the output slice
    stack,       \* the active calls of visit: frames [name, fk]
    ti,          \* index of the "Visit all tables" loop
    entered,     \* history: names in the order visit went past its guard
    spc,         \* position of the sorter: "start", "loop", "done"
    \* ---- ParseSQL (parser/postgres.go:24-74)
    src,         \* history: the statements and clauses the SQL text was built from
    content,     \* the SQL text
    options,     \* ParseOptions
    statements,  \* result of splitStatements
    si,          \* index of the statement loop
    resTables,   \* result.Tables
    resErrors,   \* result.Errors
    retResult,   \* the *ParseResult ParseSQL returns: <<>> for nil, else <<result>>
    retErr,      \* the error ParseSQL returns (<<>> for nil)
    plog,        \* history: what each processed statement did
    ppc,         \* position of ParseSQL: "start", "loop", "done" (returned a
                 \* result), "failed" (returned an error), "idle"
    \* ---- one call of a function of the parser or the generator
    input,       \* the arguments of the call
    output,      \* what the call returned (<<>> before it returns)
    fpc          \* position of the call: "call", "return", "idle"; a composition
                 \* of two functions names its steps ("parse", "map")

sortVars == <<tables, tableMap, visited, visiting, sorted, stack, ti, entered, spc>>
parseVars == <<src, content, options, statements, si, resTables, resErrors,
               retResult, retErr, plog, ppc>>
funVars == <<input, output, fpc>>
vars == <<tables, tableMap, visited, visiting, sorted, stack, ti, entered, spc,
          src, content, options, statements, si, resTables, resErrors,
          retResult, retErr, plog, ppc, input, output, fpc>>

----------------------------------------------------------------------------
(* Bounds of the model *)

MaxTables == 3
MaxClauses == 2
MaxStmts == 2
MaxSplitLen == 5
MaxBodyLen == 5
MaxPrecision == 10
MaxScale == 1
MaxNameLen == 5
MaxForeignKeys == 2
MaxSchemaTables == 2

----------------------------------------------------------------------------
(* Sequences helpers *)

Range(s) == {s[i] : i \in 1..Len(s)}

RECURSIVE SeqsUpTo(_, _)
SeqsUpTo(S, n) ==
    IF n = 0 THEN {<<>>}
    ELSE LET shorter == SeqsUpTo(S, n - 1)
         IN  shorter \cup {Append(s, x) : s \in {t \in shorter : Len(t) = n - 1}, x \in S}

----------------------------------------------------------------------------
(* Go strings as sequences of characters; package strings *)

LowerLetters ==
    <<"a", "b", "c", "d", "e", "f", "g", "h", "i", "j", "k", "l", "m",
      "n", "o", "p", "q", "r", "s", "t", "u", "v", "w", "x", "y", "z">>
UpperLetters ==
    <<"A", "B", "C", "D", "E", "F", "G", "H", "I", "J", "K", "L", "M",
      "N", "O", "P", "Q", "R", "S", "T", "U", "V", "W", "X", "Y", "Z">>
DigitChars == <<"0", "1", "2", "3", "4", "5", "6", "7", "8", "9">>

LetterSet == Range(LowerLetters) \cup Range(UpperLetters)
DigitSet == Range(DigitChars)
\* The upper-case letter of every lower-case one.
UpperOf ==
    [c \in Range(LowerLetters) |->
        UpperLetters[CHOOSE i \in 1..Len(LowerLetters) : LowerLetters[i] = c]]

\* \s of Go's regexp and the spaces strings.TrimSpace removes (ASCII inputs).
IsSpace(c) == c \in {" ", "\t", "\n", "\r", "\f"}
\* [A-Z] under (?i)
IsLetter(c) == c \in LetterSet
\* \d
IsDigit(c) == c \in DigitSet
\* \w
IsWord(c) == IsLetter(c) \/ IsDigit(c) \/ c = "_"

UpperChar(c) == IF c \in DOMAIN UpperOf THEN UpperOf[c] ELSE c

\* v bound to its value before F is applied to it: the value is computed
\* once, however often F reads it.
Bind(v, F(_)) == CHOOSE r \in {F(x) : x \in {v}} : TRUE

\* strings.ToUpper
ToUpper(str) == Bind(str, LAMBDA s : [i \in 1..Len(s) |-> UpperChar(s[i])])

\* s[i:] with the model's 1-based positions
From(s, i) == SubSeq(s, i, Len(s))

Min(S) == CHOOSE x \in S : \A y \in S : x <= y
Max(S) == CHOOSE x \in S : \A y \in S : x >= y

\* strings.TrimSpace
TrimSpace(str) ==
    Bind(str, LAMBDA s :
    Bind({i \in 1..Len(s) : ~IsSpace(s[i])}, LAMBDA keep :
        IF keep = {} THEN <<>> ELSE SubSeq(s, Min(keep), Max(keep))))

\* Whether p occurs in s at position i.
MatchAt(s, i, p) ==
    /\ i >= 1
    /\ i + Len(p) - 1 <= Len(s)
    /\ \A k \in 1..Len(p) : s[i + k - 1] = p[k]

\* strings.HasPrefix
HasPrefix(s, p) == MatchAt(s, 1, p)

\* strings.Contains
Contains(str, p) ==
    Bind(str, LAMBDA s : \E i \in 1..(Len(s) - Len(p) + 1) : MatchAt(s, i, p))

\* The elements of a finite set of integers in ascending order.
SortedSeq(set) ==
    Bind(set, LAMBDA S :
        [k \in 1..Cardinality(S) |->
            CHOOSE x \in S : Cardinality({y \in S : y < x}) = k - 1])

\* The pieces of s between the positions in cuts (the cut characters left
\* out), in order: what a left-to-right scan collects when it starts a new
\* piece at every cut.
Pieces(str, cuts) ==
    Bind(str, LAMBDA s :
    Bind(SortedSeq(cuts \cup {Len(s) + 1}), LAMBDA cs :
        [k \in 1..Len(cs) |->
            SubSeq(s, IF k = 1 THEN 1 ELSE cs[k - 1] + 1, cs[k] - 1)]))

\* strings.Split(s, sep) for a one-character separator
Split(str, sep) == Bind(str, LAMBDA s : Pieces(s, {i \in 1..Len(s) : s[i] = sep}))

NonBlank(piece) == TrimSpace(piece) # <<>>

\* strings.Join(parts, sep)
RECURSIVE JoinFrom(_, _, _)
JoinFrom(parts, sep, k) ==
    IF k > Len(parts) THEN <<>>
    ELSE IF k = Len(parts) THEN parts[k]
    ELSE parts[k] \o sep \o JoinFrom(parts, sep, k + 1)

Join(ps, sep) == Bind(ps, LAMBDA parts : JoinFrom(parts, sep, 1))

\* strings.ReplaceAll(s, " ", "")
RemoveSpaces(s) == SelectSeq(s, LAMBDA c : c # " ")

\* The first position at or after i whose character is not a space, a word
\* character, a letter, a digit: where a greedy \s*, \w*, [A-Z]*, \d* ends.
FirstOf(stop, otherwise) == IF stop = {} THEN otherwise ELSE Min(stop)
SkipSpace(s, i) == Bind({j \in i..Len(s) : ~IsSpace(s[j])}, LAMBDA stop : FirstOf(stop, Len(s) + 1))
SkipWord(s, i) == Bind({j \in i..Len(s) : ~IsWord(s[j])}, LAMBDA stop : FirstOf(stop, Len(s) + 1))
SkipLetters(s, i) == Bind({j \in i..Len(s) : ~IsLetter(s[j])}, LAMBDA stop : FirstOf(stop, Len(s) + 1))
SkipDigits(s, i) == Bind({j \in i..Len(s) : ~IsDigit(s[j])}, LAMBDA stop : FirstOf(stop, Len(s) + 1))
\* The position of the first c at or after i, or 0.
IndexFrom(s, i, c) == Bind({j \in i..Len(s) : s[j] = c}, LAMBDA hit : FirstOf(hit, 0))

\* The keywords of the source's patterns and string constants
Kw ==
    [Create |-> <<"C", "R", "E", "A", "T", "E">>,
     Table |-> <<"T", "A", "B", "L", "E">>,
     Constraint |-> <<"C", "O", "N", "S", "T", "R", "A", "I", "N", "T">>,
     Primary |-> <<"P", "R", "I", "M", "A", "R", "Y">>,
     Foreign |-> <<"F", "O", "R", "E", "I", "G", "N">>,
     Key |-> <<"K", "E", "Y">>,
     References |-> <<"R", "E", "F", "E", "R", "E", "N", "C", "E", "S">>,
     Check |-> <<"C", "H", "E", "C", "K">>,
     Unique |-> <<"U", "N", "I", "Q", "U", "E">>,
     With |-> <<"W", "I", "T", "H">>,
     Time |-> <<"T", "I", "M", "E">>,
     Zone |-> <<"Z", "O", "N", "E">>,
     Default |-> <<"D", "E", "F", "A", "U", "L", "T">>,
     PrimaryKey |-> <<"P", "R", "I", "M", "A", "R", "Y", " ", "K", "E", "Y">>,
     ForeignKey |-> <<"F", "O", "R", "E", "I", "G", "N", " ", "K", "E", "Y">>,
     NotNull |-> <<"N", "O", "T", " ", "N", "U", "L", "L">>]

Sp == <<" ">>

\* A keyword followed by \s+, matched without regard to case at position i of
\* s (u is ToUpper(s)): the position after the spaces, or 0.
KeywordSpaces(s, u, i, kw) ==
    IF ~MatchAt(u, i, kw) THEN 0
    ELSE Bind(SkipSpace(s, i + Len(kw)), LAMBDA b : IF b = i + Len(kw) THEN 0 ELSE b)

----------------------------------------------------------------------------
(* The parser: scanners and patterns of internal/parser/postgres.go *)

\* commentRegex `--.*$` with ReplaceAllString(content, ""): without the (?m)
\* flag $ is the end of the text and . is any character but a newline, so
\* the pattern matches from the first "--" that has no newline after it.
StripComment(str) ==
    Bind(str, LAMBDA s :
    Bind(Max({0} \cup {j \in 1..Len(s) : s[j] = "\n"}), LAMBDA lastNewline :
    Bind({p \in (lastNewline + 1)..Len(s) : MatchAt(s, p, <<"-", "-">>)}, LAMBDA starts :
        IF starts = {} THEN s ELSE SubSeq(s, 1, Min(starts) - 1))))

\* One step of the quote tracking shared by splitStatements (lines 336-352)
\* and splitTableItems (lines 287-307): the value of stringChar after the
\* character at position i, from its value q before it ("" when inString is
\* false).
QuoteStep(q, s, i) ==
    IF q = ""
    THEN IF s[i] = "'" \/ s[i] = "\"" THEN s[i] ELSE ""
    ELSE IF s[i] = q /\ (i = 1 \/ s[i - 1] # "\\") THEN "" ELSE q

\* The loop over positions lo..hi entered with stringChar q: the value of
\* stringChar before each character, and after the last. The range is halved
\* to keep the evaluation shallow; the steps are taken left to right.
RECURSIVE QuoteScan(_, _, _, _)
QuoteScan(s, lo, hi, q) ==
    IF lo > hi THEN [before |-> <<>>, end |-> q]
    ELSE IF lo = hi THEN [before |-> <<q>>, end |-> QuoteStep(q, s, lo)]
    ELSE Bind(QuoteScan(s, lo, (lo + hi) \div 2, q), LAMBDA left :
         Bind(QuoteScan(s, (lo + hi) \div 2 + 1, hi, left.end), LAMBDA right :
             [before |-> left.before \o right.before, end |-> right.end]))

\* The positions at which the loop of splitStatements ends a statement: a ";"
\* read while inString is false.
StatementCuts(s) ==
    Bind(QuoteScan(s, 1, Len(s), "").before, LAMBDA quote :
        {i \in 1..Len(s) : s[i] = ";" /\ quote[i] = ""})

\* splitStatements: the comment pattern is removed, then every piece between
\* two cuts that is not blank is appended as it stands.
splitStatements(c) ==
    Bind(StripComment(c), LAMBDA s : SelectSeq(Pieces(s, StatementCuts(s)), NonBlank))

\* parenDepth before each character of splitTableItems' loop: "(" and ")"
\* read while inString is false count up and down.
ParenDepthBefore(s, quote) ==
    [i \in 1..Len(s) |->
        Cardinality({j \in 1..(i - 1) : s[j] = "(" /\ quote[j] = ""})
        - Cardinality({j \in 1..(i - 1) : s[j] = ")" /\ quote[j] = ""})]

\* The positions at which the loop of splitTableItems ends an item: a ","
\* read while inString is false and parenDepth is 0.
ItemCuts(s) ==
    Bind(QuoteScan(s, 1, Len(s), "").before, LAMBDA quote :
    Bind(ParenDepthBefore(s, quote), LAMBDA depth :
        {i \in 1..Len(s) : s[i] = "," /\ quote[i] = "" /\ depth[i] = 0}))

\* splitTableItems: every piece that is not blank is appended trimmed.
splitTableItems(str) ==
    Bind(str, LAMBDA body :
    Bind(SelectSeq(Pieces(body, ItemCuts(body)), NonBlank), LAMBDA items :
        [k \in 1..Len(items) |-> TrimSpace(items[k])]))

\* `(?i)^\s*CREATE\s+TABLE\s+`
isCreateTableStatement(str) ==
    Bind(str, LAMBDA stmt :
    Bind(ToUpper(stmt), LAMBDA u :
    Bind(KeywordSpaces(stmt, u, SkipSpace(stmt, 1), Kw.Create), LAMBDA a :
        a # 0 /\ KeywordSpaces(stmt, u, a, Kw.Table) # 0)))

\* `(?i)CREATE\s+TABLE\s+(\w+)\s*\(` tried at position p of stmt (u is
\* ToUpper(stmt)): the positions of the name and of the opening parenthesis,
\* or open = 0 when it does not match.
NoCreateTable == [name |-> <<>>, open |-> 0]

CreateTableAt(stmt, u, p) ==
    Bind(KeywordSpaces(stmt, u, p, Kw.Create), LAMBDA a :
    IF a = 0 THEN NoCreateTable ELSE
    Bind(KeywordSpaces(stmt, u, a, Kw.Table), LAMBDA b :
    IF b = 0 THEN NoCreateTable ELSE
    Bind(SkipWord(stmt, b), LAMBDA e :
    Bind(SkipSpace(stmt, e), LAMBDA f :
        IF e > b /\ f <= Len(stmt) /\ stmt[f] = "("
        THEN [name |-> SubSeq(stmt, b, e - 1), open |-> f]
        ELSE NoCreateTable))))

\* The leftmost match of the pattern above, or NoCreateTable.
FirstCreateTable(stmt, u) ==
    Bind({p \in 1..Len(stmt) : CreateTableAt(stmt, u, p).open # 0}, LAMBDA starts :
        IF starts = {} THEN NoCreateTable ELSE CreateTableAt(stmt, u, Min(starts)))

\* tableNameRegex.FindStringSubmatch: the leftmost match.
MatchTableName(str) ==
    Bind(str, LAMBDA stmt :
    Bind(FirstCreateTable(stmt, ToUpper(stmt)), LAMBDA m :
        [found |-> m.open # 0, name |-> m.name]))

\* `\);?\s*$` at position q: a ")" followed by an optional ";" and spaces
\* up to the end of the text.
ClosesStatement(stmt, q) ==
    /\ q <= Len(stmt)
    /\ stmt[q] = ")"
    /\ SkipSpace(stmt, IF q + 1 <= Len(stmt) /\ stmt[q + 1] = ";" THEN q + 2 ELSE q + 1)
         = Len(stmt) + 1

\* The ")" that ends the greedy (.*) of bodyRegex for a body opened at
\* `open`: the last ")" after it that closes the statement, or 0.
BodyClose(stmt, open) ==
    Bind({q \in (open + 1)..Len(stmt) : ClosesStatement(stmt, q)}, LAMBDA ends :
        IF ends = {} THEN 0 ELSE Max(ends))

\* bodyRegex `(?is)CREATE\s+TABLE\s+\w+\s*\((.*)\);?\s*$`: leftmost match,
\* the (.*) greedy. A ")" that closes the statement closes it for every
\* start, so the leftmost start of the prefix with such a ")" after its "("
\* is the match.
MatchTableBody(str) ==
    Bind(str, LAMBDA stmt :
    Bind(ToUpper(stmt), LAMBDA u :
    Bind({p \in 1..Len(stmt) :
             Bind(CreateTableAt(stmt, u, p).open, LAMBDA open :
                 open # 0 /\ BodyClose(stmt, open) # 0)}, LAMBDA starts :
        IF starts = {} THEN [found |-> FALSE, body |-> <<>>]
        ELSE Bind(CreateTableAt(stmt, u, Min(starts)).open, LAMBDA open :
                 [found |-> TRUE,
                  body |-> SubSeq(stmt, open + 1, BodyClose(stmt, open) - 1)]))))

\* The character at position i, or "" beyond the ends.
CharAt(s, i) == IF i >= 1 /\ i <= Len(s) THEN s[i] ELSE ""

\* strconv.Atoi of a run of digits (the inputs stay far below the int range).
DigitValue(c) == (CHOOSE i \in 1..Len(DigitChars) : DigitChars[i] = c) - 1
\* A conversion that reads the last digit only.
AtoiOfLastDigit(ds) == IF ds = <<>> THEN 0 ELSE DigitValue(ds[Len(ds)])

RECURSIVE Atoi(_)
Atoi(ds) == IF ds = <<>> THEN 0
            ELSE 10 * Atoi(SubSeq(ds, 1, Len(ds) - 1)) + DigitValue(ds[Len(ds)])

\* `(?:\s+WITH\s+TIME\s+ZONE)?` at position i: the position after it.
WithTimeZoneEnd(s, u, i) ==
    Bind(SkipSpace(s, i), LAMBDA w :
    IF w = i THEN i ELSE
    Bind(KeywordSpaces(s, u, w, Kw.With), LAMBDA x :
    IF x = 0 THEN i ELSE
    Bind(KeywordSpaces(s, u, x, Kw.Time), LAMBDA y :
        IF y # 0 /\ MatchAt(u, y, Kw.Zone) THEN y + Len(Kw.Zone) ELSE i)))

\* `(?:\([^)]*\))?` at position i: the position after it.
TypeArgsEnd(s, i) ==
    IF CharAt(s, i) # "(" THEN i
    ELSE Bind(IndexFrom(s, i + 1, ")"), LAMBDA c : IF c # 0 THEN c + 1 ELSE i)

\* `(?:[A-Z]+(?:\([^)]*\))?(?:\s+WITH\s+TIME\s+ZONE)?)+` under (?i), greedy,
\* from a letter at position i: the position after the match.
RECURSIVE TypeEnd(_, _, _)
TypeEnd(s, u, i) ==
    Bind(SkipLetters(s, i), LAMBDA a :
    Bind(TypeArgsEnd(s, a), LAMBDA b :
    Bind(WithTimeZoneEnd(s, u, b), LAMBDA c :
        IF IsLetter(CharAt(s, c)) THEN TypeEnd(s, u, c) ELSE c)))

NoTypeLength == [found |-> FALSE, name |-> <<>>, length |-> <<>>, scale |-> <<>>]

\* typeRegex `([A-Z]+)\((\d+)(?:,\s*(\d+))?\)` tried at position p of the
\* upper-cased type text t.
TypeLengthAt(t, p) ==
    Bind(SkipLetters(t, p), LAMBDA a :
    IF ~(a > p /\ CharAt(t, a) = "(") THEN NoTypeLength ELSE
    Bind(SkipDigits(t, a + 1), LAMBDA d :
    IF d = a + 1 THEN NoTypeLength
    ELSE IF CharAt(t, d) = ")"
    THEN [found |-> TRUE, name |-> SubSeq(t, p, a - 1),
          length |-> SubSeq(t, a + 1, d - 1), scale |-> <<>>]
    ELSE IF CharAt(t, d) # "," THEN NoTypeLength ELSE
    Bind(SkipSpace(t, d + 1), LAMBDA e :
    Bind(SkipDigits(t, e), LAMBDA f :
        IF f > e /\ CharAt(t, f) = ")"
        THEN [found |-> TRUE, name |-> SubSeq(t, p, a - 1),
              length |-> SubSeq(t, a + 1, d - 1), scale |-> SubSeq(t, e, f - 1)]
        ELSE NoTypeLength))))

\* typeRegex.FindStringSubmatch: the leftmost match.
MatchTypeLength(str) ==
    Bind(str, LAMBDA t :
    Bind({p \in 1..Len(t) : TypeLengthAt(t, p).found}, LAMBDA starts :
        IF starts = {} THEN NoTypeLength ELSE TypeLengthAt(t, Min(starts))))

\* The first position at or after i holding a comma or a space: where a
\* greedy [^,\s]* ends.
SkipDefaultToken(s, i) ==
    Bind({j \in i..Len(s) : s[j] = "," \/ IsSpace(s[j])}, LAMBDA stop :
        FirstOf(stop, Len(s) + 1))

\* `[^,\s]+(?:\s+[^,\s]+)*` greedy from the token starting at i.
RECURSIVE DefaultEnd(_, _)
DefaultEnd(s, i) ==
    Bind(SkipDefaultToken(s, i), LAMBDA e :
    Bind(SkipSpace(s, e), LAMBDA w :
        IF w > e /\ w <= Len(s) /\ s[w] # "," THEN DefaultEnd(s, w) ELSE e))

NoDefault == [found |-> FALSE, value |-> <<>>]

\* defaultRegex `(?i)DEFAULT\s+([^,\s]+(?:\s+[^,\s]+)*)` tried at position p.
DefaultAt(s, u, p) ==
    Bind(KeywordSpaces(s, u, p, Kw.Default), LAMBDA q :
        IF q # 0 /\ q <= Len(s) /\ s[q] # ","
        THEN [found |-> TRUE, value |-> SubSeq(s, q, DefaultEnd(s, q) - 1)]
        ELSE NoDefault)

\* defaultRegex.FindStringSubmatch: the leftmost match.
MatchDefault(str) ==
    Bind(str, LAMBDA s :
    Bind(ToUpper(s), LAMBDA u :
    Bind({p \in 1..Len(s) : DefaultAt(s, u, p).found}, LAMBDA starts :
        IF starts = {} THEN NoDefault ELSE DefaultAt(s, u, Min(starts)))))

SerialTypes ==
    {<<"B", "I", "G", "S", "E", "R", "I", "A", "L">>,
     <<"S", "E", "R", "I", "A", "L">>,
     <<"S", "M", "A", "L", "L", "S", "E", "R", "I", "A", "L">>}

NoColumn == [found |-> FALSE, name |-> <<>>, type |-> <<>>, rest |-> <<>>]

\* columnRegex
\* `(?i)^\s*(\w+)\s+((?:[A-Z]+(?:\([^)]*\))?(?:\s+WITH\s+TIME\s+ZONE)?)+)\s*(.*)$`:
\* the three groups, or found = FALSE. Every quantifier is greedy and no
\* shorter choice can make the pattern match, so the greedy positions decide;
\* the final (.*)$ fails on a newline, which . does not match.
MatchColumn(str) ==
    Bind(str, LAMBDA s :
    Bind(SkipSpace(s, 1), LAMBDA p1 :
    Bind(SkipWord(s, p1), LAMBDA p2 :
    Bind(SkipSpace(s, p2), LAMBDA p3 :
    IF ~(p2 > p1 /\ p3 > p2 /\ IsLetter(CharAt(s, p3))) THEN NoColumn ELSE
    Bind(TypeEnd(s, ToUpper(s), p3), LAMBDA p4 :
    Bind(SkipSpace(s, p4), LAMBDA p5 :
        IF IndexFrom(s, p5, "\n") = 0
        THEN [found |-> TRUE, name |-> SubSeq(s, p1, p2 - 1),
              type |-> SubSeq(s, p3, p4 - 1), rest |-> From(s, p5)]
        ELSE NoColumn))))))

\* The Column built by parseColumnRegex (lines 169-217) from the groups m of
\* columnRegex; a nil pointer is <<>>, a set one <<v>>.
NewColumn(m) ==
    Bind(ToUpper(TrimSpace(m.type)), LAMBDA rawType :
    Bind(IF Contains(rawType, <<"(">>) THEN MatchTypeLength(rawType) ELSE NoTypeLength,
         LAMBDA tm :
    Bind(IF tm.found THEN tm.name ELSE rawType, LAMBDA type :
    Bind(ToUpper(m.rest), LAMBDA constraints :
    Bind(MatchDefault(m.rest), LAMBDA dm :
        [Name |-> m.name,
         Type |-> type,
         Length |-> IF tm.found THEN <<Atoi(tm.length)>> ELSE <<>>,
         Scale |-> IF tm.found /\ tm.scale # <<>> THEN <<Atoi(tm.scale)>> ELSE <<>>,
         NotNull |-> Contains(constraints, Kw.NotNull),
         Unique |-> Contains(constraints, Kw.Unique),
         DefaultValue |-> IF dm.found THEN <<TrimSpace(dm.value)>> ELSE <<>>,
         AutoIncrement |-> type \in SerialTypes])))))

\* An error value: nil is <<>>, and fmt.Errorf is the text of the format
\* followed by what it formats: nothing, <<arg>> for %s, the wrapped error
\* for %w.
Errorf(text, args) == <<text>> \o args

\* parseColumnRegex: [err, column].
parseColumnRegex(columnDef) ==
    Bind(MatchColumn(columnDef), LAMBDA m :
        IF ~m.found
        THEN [err |-> Errorf("could not parse column definition: %s", <<columnDef>>),
              column |-> <<>>]
        ELSE [err |-> <<>>, column |-> <<NewColumn(m)>>])

ConstraintKeywords == <<Kw.Constraint, Kw.PrimaryKey, Kw.ForeignKey, Kw.Check, Kw.Unique>>

\* isConstraint: the upper-cased item starts with one of the keywords.
isConstraint(item) ==
    Bind(ToUpper(TrimSpace(item)), LAMBDA upper :
        \E k \in 1..Len(ConstraintKeywords) : HasPrefix(upper, ConstraintKeywords[k]))

NoPrimaryKey == [found |-> FALSE, columns |-> <<>>]

\* `PRIMARY\s+KEY\s*\(([^)]+)\)` tried at position p. The optional
\* `(?:CONSTRAINT\s+\w+\s+)?` in front of it in pkRegex moves the start of the
\* match but never which PRIMARY KEY it finds, nor group 1.
PrimaryKeyAt(s, u, p) ==
    Bind(KeywordSpaces(s, u, p, Kw.Primary), LAMBDA a :
    IF a = 0 \/ ~MatchAt(u, a, Kw.Key) THEN NoPrimaryKey ELSE
    Bind(SkipSpace(s, a + Len(Kw.Key)), LAMBDA b :
    IF CharAt(s, b) # "(" THEN NoPrimaryKey ELSE
    Bind(IndexFrom(s, b + 1, ")"), LAMBDA c :
        IF c > b + 1 THEN [found |-> TRUE, columns |-> SubSeq(s, b + 1, c - 1)]
        ELSE NoPrimaryKey)))

\* pkRegex.FindStringSubmatch: the leftmost match.
MatchPrimaryKey(str) ==
    Bind(str, LAMBDA s :
    Bind(ToUpper(s), LAMBDA u :
    Bind({p \in 1..Len(s) : PrimaryKeyAt(s, u, p).found}, LAMBDA starts :
        IF starts = {} THEN NoPrimaryKey ELSE PrimaryKeyAt(s, u, Min(starts)))))

NoForeignKey == [found |-> FALSE, name |-> <<>>, columns |-> <<>>, table |-> <<>>, refColumns |-> <<>>]

\* `\s*\(([^)]+)\)` at position i: the positions of the "(" and of the ")",
\* or open = 0.
NoColumnList == [open |-> 0, close |-> 0]

ColumnListAt(s, i) ==
    Bind(SkipSpace(s, i), LAMBDA h :
    IF CharAt(s, h) # "(" THEN NoColumnList ELSE
    Bind(IndexFrom(s, h + 1, ")"), LAMBDA c :
        IF c > h + 1 THEN [open |-> h, close |-> c] ELSE NoColumnList))

\* fkRegex `(?i)CONSTRAINT\s+(\w+)\s+FOREIGN\s+KEY\s*\(([^)]+)\)\s+REFERENCES\s+(\w+)\s*\(([^)]+)\)`
\* tried at position p.
ForeignKeyAt(s, u, p) ==
    Bind(KeywordSpaces(s, u, p, Kw.Constraint), LAMBDA a :
    IF a = 0 THEN NoForeignKey ELSE
    Bind(SkipWord(s, a), LAMBDA e :
    IF e = a THEN NoForeignKey ELSE
    Bind(KeywordSpaces(s, u, SkipSpace(s, e), Kw.Foreign), LAMBDA g :
    IF SkipSpace(s, e) = e \/ g = 0 \/ ~MatchAt(u, g, Kw.Key) THEN NoForeignKey ELSE
    Bind(ColumnListAt(s, g + Len(Kw.Key)), LAMBDA cols :
    IF cols.open = 0 \/ SkipSpace(s, cols.close + 1) = cols.close + 1 THEN NoForeignKey ELSE
    Bind(KeywordSpaces(s, u, SkipSpace(s, cols.close + 1), Kw.References), LAMBDA t :
    IF t = 0 THEN NoForeignKey ELSE
    Bind(SkipWord(s, t), LAMBDA e2 :
    IF e2 = t THEN NoForeignKey ELSE
    Bind(ColumnListAt(s, e2), LAMBDA refs :
        IF refs.open = 0 THEN NoForeignKey
        ELSE [found |-> TRUE, name |-> SubSeq(s, a, e - 1),
              columns |-> SubSeq(s, cols.open + 1, cols.close - 1),
              table |-> SubSeq(s, t, e2 - 1),
              refColumns |-> SubSeq(s, refs.open + 1, refs.close - 1)])))))))

\* fkRegex.FindStringSubmatch: the leftmost match.
MatchForeignKey(str) ==
    Bind(str, LAMBDA s :
    Bind(ToUpper(s), LAMBDA u :
    Bind({p \in 1..Len(s) : ForeignKeyAt(s, u, p).found}, LAMBDA starts :
        IF starts = {} THEN NoForeignKey ELSE ForeignKeyAt(s, u, Min(starts)))))

TrimEach(ps) == Bind(ps, LAMBDA parts : [i \in 1..Len(parts) |-> TrimSpace(parts[i])])

\* The table with the PRIMARY KEY of constraintDef recorded (lines 241-251).
AddPrimaryKey(table, constraintDef) ==
    Bind(MatchPrimaryKey(constraintDef), LAMBDA pk :
        IF pk.found
        THEN [table EXCEPT !.PrimaryKey = @ \o TrimEach(Split(pk.columns, ","))]
        ELSE table)

\* The table with the FOREIGN KEY of constraintDef recorded (lines 254-266).
AddForeignKey(table, constraintDef) ==
    Bind(MatchForeignKey(constraintDef), LAMBDA fk :
        IF fk.found
        THEN [table EXCEPT !.ForeignKeys = Append(@,
                 [Name |-> fk.name,
                  Columns |-> Split(RemoveSpaces(fk.columns), ","),
                  ReferencedTable |-> fk.table,
                  ReferencedColumns |-> Split(RemoveSpaces(fk.refColumns), ",")])]
        ELSE table)

\* parseConstraint: [err, table], the table with the constraint recorded.
parseConstraint(table, constraintDef, opts) ==
    Bind(ToUpper(TrimSpace(constraintDef)), LAMBDA constraintUpper :
        IF Contains(constraintUpper, Kw.PrimaryKey)
        THEN [err |-> <<>>, table |-> AddPrimaryKey(table, constraintDef)]
        ELSE IF Contains(constraintUpper, Kw.ForeignKey)
        THEN [err |-> <<>>, table |-> AddForeignKey(table, constraintDef)]
        ELSE IF opts.IgnoreUnsupported
        THEN [err |-> <<>>, table |-> table]
        ELSE [err |-> Errorf("unsupported constraint: %s", <<constraintDef>>), table |-> table])

\* One iteration of the loop of parseTableBody (lines 125-148) on the result
\* acc = [err, table] of the iterations before it; an error ends the loop.
ParseItem(acc, rawItem, opts) ==
    IF acc.err # <<>> THEN acc ELSE
    Bind(TrimSpace(rawItem), LAMBDA item :
        IF item = <<>> THEN acc
        ELSE IF isConstraint(item)
        THEN Bind(parseConstraint(acc.table, item, opts), LAMBDA r :
                 IF r.err # <<>> /\ ~opts.IgnoreUnsupported
                 THEN [err |-> r.err, table |-> acc.table]
                 ELSE [err |-> <<>>, table |-> r.table])
        ELSE Bind(parseColumnRegex(item), LAMBDA r :
                 IF r.err # <<>>
                 THEN IF opts.IgnoreUnsupported THEN acc
                      ELSE [err |-> r.err, table |-> acc.table]
                 ELSE [err |-> <<>>,
                       table |-> [acc.table EXCEPT !.Columns = Append(@, r.column[1])]]))

\* The loop of parseTableBody over items[1..n]: [err, table].
RECURSIVE ParseItems(_, _, _, _)
ParseItems(table, items, n, opts) ==
    IF n = 0 THEN [err |-> <<>>, table |-> table]
    ELSE Bind(ParseItems(table, items, n - 1, opts), LAMBDA acc :
             ParseItem(acc, items[n], opts))

parseTableBody(table, body, opts) ==
    Bind(splitTableItems(body), LAMBDA items : ParseItems(table, items, Len(items), opts))

NewTable(name) ==
    [Name |-> name, Columns |-> <<>>, PrimaryKey |-> <<>>, ForeignKeys |-> <<>>,
     Indexes |-> <<>>, Constraints |-> <<>>]

\* parseCreateTableRegex: [err, table]; with an error the table is nil (<<>>).
parseCreateTableRegex(str, opts) ==
    Bind(str, LAMBDA stmt :
    Bind(MatchTableName(stmt), LAMBDA nm :
    IF ~nm.found
    THEN [err |-> Errorf("could not extract table name from statement", <<>>), table |-> <<>>] ELSE
    Bind(MatchTableBody(stmt), LAMBDA bm :
    IF ~bm.found
    THEN [err |-> Errorf("could not extract table body from statement", <<>>), table |-> <<>>] ELSE
    Bind(parseTableBody(NewTable(nm.name), bm.body, opts), LAMBDA r :
        IF r.err # <<>>
        THEN [err |-> Errorf("failed to parse table body: %w", r.err), table |-> <<>>]
        ELSE [err |-> <<>>, table |-> <<r.table>>]))))

----------------------------------------------------------------------------
(* The type mapper: MapColumnType of internal/generator/postgres.go *)

\* A Go string literal as the sequence of its characters.
Chars(str) == [i \in 1..Len(str) |-> SubSeq(str, i, i)]

\* The codes of the printable ASCII characters (Go compares strings byte by
\* byte): the characters from the space (32) to the underscore (95), and
\* those from "a" (97) to the tilde (126).
AsciiTable ==
    [low |-> <<" ", "!", "\"", "#", "$", "%", "&", "'", "(", ")", "*", "+", ",", "-", ".", "/">>
             \o DigitChars \o <<":", ";", "<", "=", ">", "?", "@">>
             \o UpperLetters \o <<"[", "\\", "]", "^", "_">>,
     high |-> LowerLetters \o <<"{", "|", "}", "~">>]
Ord(c) ==
    IF c = "\n" THEN 10
    ELSE IF \E i \in 1..Len(AsciiTable.low) : AsciiTable.low[i] = c
    THEN 31 + (CHOOSE i \in 1..Len(AsciiTable.low) : AsciiTable.low[i] = c)
    ELSE 96 + (CHOOSE i \in 1..Len(AsciiTable.high) : AsciiTable.high[i] = c)

\* a < b on Go strings
StringLess(a, b) ==
    \E k \in 1..(Len(b)) :
        /\ \A j \in 1..(k - 1) : j <= Len(a) /\ a[j] = b[j]
        /\ \/ k = Len(a) + 1
           \/ k <= Len(a) /\ Ord(a[k]) < Ord(b[k])

\* Whether strconv.Atoi(s) returns no error: an optional sign, then digits
\* only, the number within the 64-bit int range.
AtoiSucceeds(str) ==
    Bind(str, LAMBDA s :
    Bind(IF s # <<>> /\ s[1] \in {"+", "-"} THEN From(s, 2) ELSE s, LAMBDA digits :
    Bind({i \in 1..Len(digits) : digits[i] # "0"}, LAMBDA nonzero :
    Bind(IF nonzero = {} THEN <<>> ELSE From(digits, Min(nonzero)), LAMBDA significant :
    Bind(Chars(IF s # <<>> /\ s[1] = "-" THEN "9223372036854775808"
               ELSE "9223372036854775807"), LAMBDA limit :
        /\ digits # <<>>
        /\ \A i \in 1..Len(digits) : IsDigit(digits[i])
        /\ \/ Len(significant) < Len(limit)
           \/ Len(significant) = Len(limit) /\ ~StringLess(limit, significant))))))

\* fmt.Sprintf("%d", n)
RECURSIVE Itoa(_)
Itoa(n) ==
    IF n < 0 THEN <<"-">> \o Itoa(0 - n)
    ELSE IF n < 10 THEN <<DigitChars[n + 1]>>
    ELSE Itoa(n \div 10) \o <<DigitChars[(n % 10) + 1]>>

\* fmt.Sprintf("'%s'", s)
Quoted(s) == <<"'">> \o s \o <<"'">>

\* The cases of the switch on strings.ToUpper(column.Type) (lines 33-104)
\* whose arguments do not depend on Length and Scale: the type names of the
\* case, the Drizzle function, and the arguments after the column name.
TypeCases ==
    <<[names |-> {"BIGSERIAL"}, function |-> "bigserial", args |-> <<"{ mode: 'number' }">>],
      [names |-> {"SERIAL"}, function |-> "serial", args |-> <<>>],
      [names |-> {"SMALLSERIAL"}, function |-> "serial", args |-> <<>>],
      [names |-> {"BIGINT"}, function |-> "bigint", args |-> <<"{ mode: 'number' }">>],
      [names |-> {"INTEGER", "INT", "INT4"}, function |-> "integer", args |-> <<>>],
      [names |-> {"SMALLINT", "INT2"}, function |-> "smallint", args |-> <<>>],
      [names |-> {"TEXT"}, function |-> "text", args |-> <<>>],
      [names |-> {"BOOLEAN", "BOOL"}, function |-> "boolean", args |-> <<>>],
      [names |-> {"TIMESTAMP WITH TIME ZONE", "TIMESTAMPTZ"}, function |-> "timestamp",
       args |-> <<"{ withTimezone: true }">>],
      [names |-> {"TIMESTAMP"}, function |-> "timestamp", args |-> <<>>],
      [names |-> {"DATE"}, function |-> "date", args |-> <<>>],
      [names |-> {"TIME"}, function |-> "time", args |-> <<>>],
      [names |-> {"REAL", "FLOAT4"}, function |-> "real", args |-> <<>>],
      [names |-> {"DOUBLE PRECISION", "DOUBLE", "FLOAT8"}, function |-> "doublePrecision",
       args |-> <<>>],
      [names |-> {"UUID"}, function |-> "uuid", args |-> <<>>],
      [names |-> {"JSON"}, function |-> "json", args |-> <<>>],
      [names |-> {"JSONB"}, function |-> "jsonb", args |-> <<>>]>>

\* A mapper without the default case of the switch.
MapTypeWithoutFallback(column) ==
    Bind(FirstOf({i \in 1..Len(TypeCases) :
                     \E n \in TypeCases[i].names : Chars(n) = ToUpper(column.Type)}, 0),
         LAMBDA k :
        [Function |-> IF k # 0 THEN Chars(TypeCases[k].function) ELSE <<>>,
         Args |-> <<Quoted(column.Name), Chars("{}")>>])

\* Function and Args of the DrizzleType (lines 33-108).
MapType(column) ==
    Bind(ToUpper(column.Type), LAMBDA upper :
    Bind(Quoted(column.Name), LAMBDA name :
    \* the case of TypeCases the type name falls in, or 0
    Bind(FirstOf({i \in 1..Len(TypeCases) : \E n \in TypeCases[i].names : Chars(n) = upper}, 0),
         LAMBDA k :
        IF upper = Chars("VARCHAR")
        THEN [Function |-> Chars("varchar"),
              Args |-> IF column.Length # <<>>
                       THEN <<name, Chars("{ length: ") \o Itoa(column.Length[1]) \o Chars(" }")>>
                       ELSE <<name>>]
        ELSE IF upper \in {Chars("DECIMAL"), Chars("NUMERIC")}
        THEN [Function |-> Chars("decimal"),
              Args |-> IF column.Length # <<>> /\ column.Scale # <<>>
                       THEN <<name, Chars("{ precision: ") \o Itoa(column.Length[1])
                                    \o Chars(", scale: ") \o Itoa(column.Scale[1]) \o Chars(" }")>>
                       ELSE IF column.Length # <<>>
                       THEN <<name, Chars("{ precision: ") \o Itoa(column.Length[1]) \o Chars(" }")>>
                       ELSE <<name>>]
        ELSE IF k # 0
        THEN [Function |-> Chars(TypeCases[k].function),
              Args |-> <<name>> \o [j \in 1..Len(TypeCases[k].args) |-> Chars(TypeCases[k].args[j])]]
        ELSE [Function |-> Chars("text"), Args |-> <<name>>])))

\* The option for the default value (lines 119-143).
DefaultOptions(column) ==
    IF column.DefaultValue = <<>> THEN <<>> ELSE
    Bind(column.DefaultValue[1], LAMBDA defaultVal :
    Bind(ToUpper(defaultVal), LAMBDA upper :
        IF upper \in {Chars("CURRENT_TIMESTAMP"), Chars("NOW()")}
        THEN IF Contains(ToUpper(column.Type), Chars("TIMESTAMP"))
             THEN <<Chars("defaultNow()")>>
             ELSE <<>>
        ELSE IF upper = Chars("TRUE") THEN <<Chars("default(true)")>>
        ELSE IF upper = Chars("FALSE") THEN <<Chars("default(false)")>>
        ELSE IF HasPrefix(defaultVal, <<"'">>) /\ MatchAt(defaultVal, Len(defaultVal), <<"'">>)
        THEN <<Chars("default(") \o defaultVal \o Chars(")")>>
        ELSE IF AtoiSucceeds(defaultVal)
        THEN <<Chars("default(") \o defaultVal \o Chars(")")>>
        ELSE <<Chars("default('") \o defaultVal \o Chars("')")>>))

\* MapColumnType: [err, drizzleType]; the error is always nil.
MapColumnType(column) ==
    Bind(MapType(column), LAMBDA t :
        [err |-> <<>>,
         drizzleType |->
             [Function |-> t.Function,
              Args |-> t.Args,
              Options |-> (IF column.NotNull THEN <<Chars("notNull()")>> ELSE <<>>)
                          \o (IF column.Unique THEN <<Chars("unique()")>> ELSE <<>>)
                          \o DefaultOptions(column)]])

----------------------------------------------------------------------------
(* Naming cases: convertCase, toCamelCase, toPascalCase *)

\* "strings.ToUpper(word[:1]) + word[1:]" for the non-empty words from
\* words[k] on, appended one after the other.
RECURSIVE CapitalizedFrom(_, _)
CapitalizedFrom(words, k) ==
    IF k > Len(words) THEN <<>>
    ELSE (IF Len(words[k]) > 0
          THEN ToUpper(SubSeq(words[k], 1, 1)) \o From(words[k], 2)
          ELSE <<>>)
         \o CapitalizedFrom(words, k + 1)

\* A conversion that capitalizes the first word too.
toCamelCaseCapitalizingAll(str) == CapitalizedFrom(Split(str, "_"), 1)

toCamelCase(str) ==
    Bind(Split(str, "_"), LAMBDA words :
        IF Len(words) = 0 THEN str
        ELSE words[1] \o CapitalizedFrom(words, 2))

toPascalCase(str) == Bind(Split(str, "_"), LAMBDA words : CapitalizedFrom(words, 1))

convertCase(str, caseType) ==
    CASE caseType = "camel" -> toCamelCase(str)
      [] caseType = "pascal" -> toPascalCase(str)
      [] caseType = "snake" -> str
      [] caseType = "kebab" -> [i \in 1..Len(str) |-> IF str[i] = "_" THEN "-" ELSE str[i]]
      [] OTHER -> str

----------------------------------------------------------------------------
(* The code emitter: GenerateTable *)

\* DefaultGeneratorOptions of internal/generator/types.go
DefaultGeneratorOptions ==
    [TableNameCase |-> "camel", ColumnNameCase |-> "camel", IncludeComments |-> TRUE,
     ExportPrefix |-> <<>>, IndentSize |-> 2]

\* A header that leaves the export prefix out.
TableHeaderWithoutPrefix(table, opts) ==
    Chars("export const ") \o convertCase(table.Name, opts.TableNameCase)
    \o Chars(" = pgTable('") \o table.Name \o Chars("', {\n")

\* "export const %s%s = pgTable('%s', {\n" (line 295)
TableHeader(table, opts) ==
    Chars("export const ") \o opts.ExportPrefix
    \o convertCase(table.Name, opts.TableNameCase)
    \o Chars(" = pgTable('") \o table.Name \o Chars("', {\n")

\* A column line that looks the column up in the primary key under its
\* converted name.
ColumnLineKeyedByCase(table, column, opts) ==
    Bind(MapColumnType(column).drizzleType, LAMBDA drizzleType :
        [i \in 1..opts.IndentSize |-> " "]
        \o convertCase(column.Name, opts.ColumnNameCase) \o Chars(": ")
        \o drizzleType.Function \o <<"(">> \o Join(drizzleType.Args, Chars(", ")) \o <<")">>
        \o Join([k \in 1..Len(drizzleType.Options) |-> <<".">> \o drizzleType.Options[k]], <<>>)
        \o (IF \E k \in 1..Len(table.PrimaryKey) :
                  table.PrimaryKey[k] = convertCase(column.Name, opts.ColumnNameCase)
            THEN Chars(".primaryKey()") ELSE <<>>))

\* The text of one column before its comma and line end (lines 299-333):
\* the constructor call, the options of the type mapper, primaryKey(), and
\* the reference of the first foreign key whose only column is this one.
ColumnLine(table, column, opts) ==
    Bind(MapColumnType(column).drizzleType, LAMBDA drizzleType :
    Bind({k \in 1..Len(table.ForeignKeys) :
            /\ Len(table.ForeignKeys[k].Columns) = 1
            /\ table.ForeignKeys[k].Columns[1] = column.Name}, LAMBDA own :
        [i \in 1..opts.IndentSize |-> " "]
        \o convertCase(column.Name, opts.ColumnNameCase) \o Chars(": ")
        \o drizzleType.Function \o <<"(">> \o Join(drizzleType.Args, Chars(", ")) \o <<")">>
        \o Join([k \in 1..Len(drizzleType.Options) |-> <<".">> \o drizzleType.Options[k]], <<>>)
        \o (IF \E k \in 1..Len(table.PrimaryKey) : table.PrimaryKey[k] = column.Name
            THEN Chars(".primaryKey()") ELSE <<>>)
        \o (IF own # {} /\ Len(table.ForeignKeys[Min(own)].ReferencedColumns) = 1
            THEN Chars(".references(() => ")
                 \o convertCase(table.ForeignKeys[Min(own)].ReferencedTable, opts.TableNameCase)
                 \o <<".">>
                 \o convertCase(table.ForeignKeys[Min(own)].ReferencedColumns[1],
                                opts.ColumnNameCase)
                 \o <<")">>
            ELSE <<>>)))

\* GenerateTable: the GeneratedTable (the error is always nil, MapColumnType
\* returning none).
GenerateTable(table, opts) ==
    [OriginalName |-> table.Name,
     ExportName |-> convertCase(table.Name, opts.TableNameCase),
     Definition |->
        (IF opts.IncludeComments THEN Chars("// ") \o table.Name \o Chars(" table\n")
         ELSE <<>>)
        \o TableHeader(table, opts)
        \o Join([i \in 1..Len(table.Columns) |->
                    ColumnLine(table, table.Columns[i], opts)
                    \o (IF i < Len(table.Columns) THEN <<",">> ELSE <<>>)
                    \o <<"\n">>], <<>>)
        \o Chars("});")]

----------------------------------------------------------------------------
(* The dependency sorter: sortTablesByDependencies *)

TableNames == {"a", "b", "c"}
AbsentName == "z"

FK(ref) == [ReferencedTable |-> ref]

FKChoices ==
    {<<>>, <<FK("a")>>, <<FK("b")>>, <<FK("c")>>, <<FK(AbsentName)>>,
     <<FK("c"), FK("b")>>}

TableCatalogue == {[Name |-> n, ForeignKeys |-> fks] : n \in TableNames, fks \in FKChoices}

SortInputs == SeqsUpTo(TableCatalogue, MaxTables) \ {<<>>}

\* tableMap[table.Name] = table for each table in order: a later table with the
\* same name overwrites the earlier one.
BuildTableMap(ts) ==
    [n \in {ts[i].Name : i \in 1..Len(ts)} |->
        LET last == CHOOSE i \in 1..Len(ts) :
                        /\ ts[i].Name = n
                        /\ \A j \in (i + 1)..Len(ts) : ts[j].Name # n
        IN  ts[last]]

\* A guard of visit that looks at the tables in progress only.
VisitReturnsOnlyInProgress(name) == name \in visiting

\* The guard of visit: "if visited[tableName] || visiting[tableName] { return }".
VisitReturnsAtOnce(name) == name \in visited \/ name \in visiting

\* The call visit(name) made with the caller's stack `callers`.
CallVisit(name, callers) ==
    IF VisitReturnsAtOnce(name)
    THEN /\ stack' = callers
         /\ UNCHANGED <<visiting, entered>>
    ELSE /\ visiting' = visiting \cup {name}
         /\ stack' = Append(callers, [name |-> name, fk |-> 1])
         /\ entered' = Append(entered, name)

SortStart ==
    /\ spc = "start"
    /\ tableMap' = BuildTableMap(tables)
    /\ spc' = "loop"
    /\ UNCHANGED <<tables, visited, visiting, sorted, stack, ti, entered>>

\* "for _, table := range tables { visit(table.Name) }"
VisitNextTable ==
    /\ spc = "loop"
    /\ stack = <<>>
    /\ ti <= Len(tables)
    /\ CallVisit(tables[ti].Name, <<>>)
    /\ ti' = ti + 1
    /\ UNCHANGED <<tables, tableMap, visited, sorted, spc>>

\* One iteration of "for _, fk := range table.ForeignKeys" in the running visit.
VisitForeignKey ==
    /\ spc = "loop"
    /\ stack # <<>>
    /\ LET top == stack[Len(stack)]
           table == tableMap[top.name]
           callers == [stack EXCEPT ![Len(stack)].fk = top.fk + 1]
       IN  /\ top.fk <= Len(table.ForeignKeys)
           /\ IF table.ForeignKeys[top.fk].ReferencedTable \in DOMAIN tableMap
              THEN CallVisit(table.ForeignKeys[top.fk].ReferencedTable, callers)
              ELSE /\ stack' = callers
                   /\ UNCHANGED <<visiting, entered>>
    /\ UNCHANGED <<tables, tableMap, visited, sorted, ti, spc>>

\* An end of visit that leaves the table marked in progress.
VisitReturnLeavingInProgress ==
    /\ spc = "loop"
    /\ stack # <<>>
    /\ stack[Len(stack)].fk > Len(tableMap[stack[Len(stack)].name].ForeignKeys)
    /\ visited' = visited \cup {stack[Len(stack)].name}
    /\ sorted' = Append(sorted, tableMap[stack[Len(stack)].name])
    /\ stack' = SubSeq(stack, 1, Len(stack) - 1)
    /\ UNCHANGED <<tables, tableMap, visiting, ti, entered, spc>>

\* The end of visit: unmark, mark visited, append.
VisitReturn ==
    /\ spc = "loop"
    /\ stack # <<>>
    /\ LET top == stack[Len(stack)]
           table == tableMap[top.name]
       IN  /\ top.fk > Len(table.ForeignKeys)
           /\ visiting' = visiting \ {top.name}
           /\ visited' = visited \cup {top.name}
           /\ sorted' = Append(sorted, table)
           /\ stack' = SubSeq(stack, 1, Len(stack) - 1)
    /\ UNCHANGED <<tables, tableMap, ti, entered, spc>>

SortReturn ==
    /\ spc = "loop"
    /\ stack = <<>>
    /\ ti > Len(tables)
    /\ spc' = "done"
    /\ UNCHANGED <<tables, tableMap, visited, visiting, sorted, stack, ti, entered>>

FunIdle ==
    /\ input = <<>>
    /\ output = <<>>
    /\ fpc = "idle"

ParseIdle ==
    /\ src = <<>>
    /\ retResult = <<>>
    /\ content = <<>>
    /\ options = [StrictMode |-> FALSE, IgnoreUnsupported |-> TRUE]
    /\ statements = <<>>
    /\ si = 1
    /\ resTables = <<>>
    /\ resErrors = <<>>
    /\ retErr = <<>>
    /\ plog = <<>>
    /\ ppc = "idle"

SortInit ==
    /\ tables \in SortInputs
    /\ tableMap = << >>
    /\ visited = {}
    /\ visiting = {}
    /\ sorted = <<>>
    /\ stack = <<>>
    /\ ti = 1
    /\ entered = <<>>
    /\ spc = "start"
    /\ ParseIdle
    /\ FunIdle

SortNext ==
    /\ \/ SortStart
       \/ VisitNextTable
       \/ VisitForeignKey
       \/ VisitReturn
       \/ SortReturn
    /\ UNCHANGED <<parseVars, funVars>>

SpecSort == SortInit /\ [][SortNext]_vars

\* The sorter is one sequential function: a step that can be taken is taken.
SpecSortFair == SpecSort /\ WF_vars(SortNext)

----------------------------------------------------------------------------
(* The inputs of ParseSQL: SQL text built from clauses and statements *)

RECURSIVE Cat(_)
Cat(parts) == IF parts = <<>> THEN <<>> ELSE parts[1] \o Cat(Tail(parts))

Paren(text) == <<"(">> \o text \o <<")">>

\* A clause of a table body with what it is in SQL: a column definition
\* ("column"), a column without a type ("badcolumn"), a constraint the parser
\* supports ("pk", "fk"), one of an unsupported kind ("check", "unique"), or a
\* PRIMARY KEY / FOREIGN KEY clause that does not have the shape the parser
\* expects ("pk_malformed", "fk_unnamed").
Clause(text, kind) == [text |-> text, kind |-> kind]

\* The clauses of the inputs:
\*   Id                   id INT
\*   Checksum             checksum TEXT
\*   Decimal              n DECIMAL(10,2)
\*   Bad                  bad
\*   PrimaryKey           PRIMARY KEY (id)
\*   ForeignKey           CONSTRAINT f FOREIGN KEY (id) REFERENCES u(id)
\*   Check                CHECK (id > 0)
\*   Unique               UNIQUE (id)
\*   CheckQuoted          CONSTRAINT c CHECK (n <> 'PRIMARY KEY')
\*   UnnamedForeignKey    FOREIGN KEY (id) REFERENCES u(id)
\*   MalformedPrimaryKey  PRIMARY KEY id
Clauses ==
    LET id == <<"i", "d">>
        int == <<"I", "N", "T">>
        text == <<"T", "E", "X", "T">>
        decimal == <<"D", "E", "C", "I", "M", "A", "L">>
        checksum == <<"c", "h", "e", "c", "k", "s", "u", "m">>
        foreignKey == Cat(<<Kw.ForeignKey, Sp, Paren(id), Sp, Kw.References, Sp,
                            <<"u">>, Paren(id)>>)
    IN  [Id |-> Clause(Cat(<<id, Sp, int>>), "column"),
         Checksum |-> Clause(Cat(<<checksum, Sp, text>>), "column"),
         Decimal |-> Clause(Cat(<<<<"n">>, Sp, decimal, Paren(<<"1", "0", ",", "2">>)>>), "column"),
         Bad |-> Clause(<<"b", "a", "d">>, "badcolumn"),
         PrimaryKey |-> Clause(Cat(<<Kw.PrimaryKey, Sp, Paren(id)>>), "pk"),
         ForeignKey |-> Clause(Cat(<<Kw.Constraint, Sp, <<"f">>, Sp, foreignKey>>), "fk"),
         Check |-> Clause(Cat(<<Kw.Check, Sp, Paren(id \o <<" ", ">", " ", "0">>)>>), "check"),
         Unique |-> Clause(Cat(<<Kw.Unique, Sp, Paren(id)>>), "unique"),
         CheckQuoted |->
             Clause(Cat(<<Kw.Constraint, Sp, <<"c">>, Sp, Kw.Check, Sp,
                          Paren(Cat(<<<<"n", " ", "<", ">", " ", "'">>, Kw.PrimaryKey, <<"'">> >>))>>),
                    "check"),
         UnnamedForeignKey |-> Clause(foreignKey, "fk_unnamed"),
         MalformedPrimaryKey |-> Clause(Cat(<<Kw.PrimaryKey, Sp, id>>), "pk_malformed")]

ClauseCatalogue == {Clauses[k] : k \in DOMAIN Clauses}

\* What follows the last clause of a CREATE TABLE statement: the closing
\* parenthesis, nothing (the body is left open), or the closing parenthesis
\* and a storage parameter list, as in CREATE TABLE t (...) WITH (f=1).
Tails ==
    [Close |-> <<")">>,
     Open |-> <<>>,
     With |-> Cat(<<<<")">>, Sp, Kw.With, Sp, Paren(<<"f", "=", "1">>)>>)]

\* A statement of the input: CREATE TABLE <name> (<clauses><tail>, or another
\* statement (kind "other"). An empty name is a statement without identifier.
CreateTable(name, clauses, tail) ==
    [kind |-> "create", name |-> name, clauses |-> clauses, tail |-> tail]
OtherStatement == [kind |-> "other", name |-> <<>>, clauses |-> <<>>, tail |-> <<>>]

\* The body as written: the clauses separated by ", ".
BodyText(stmt) ==
    Join([k \in 1..Len(stmt.clauses) |-> stmt.clauses[k].text], <<",", " ">>)

Render(stmt) ==
    IF stmt.kind = "other"
    THEN Cat(<<<<"D", "R", "O", "P">>, Sp, Kw.Table, Sp, <<"x">> >>)
    ELSE Cat(<<Kw.Create, Sp, Kw.Table, Sp, stmt.name, Sp, <<"(">>, BodyText(stmt), stmt.tail>>)

\* The SQL text: every statement ended by ";", one statement per line.
RenderContent(stmts) ==
    Join([k \in 1..Len(stmts) |-> Render(stmts[k]) \o <<";">>], <<"\n">>)

StmtCatalogue ==
    {CreateTable(<<"p">>, <<Clauses.Id>>, Tails.Close),
     CreateTable(<<"p">>, <<Clauses.Id, Clauses.Decimal>>, Tails.Close),
     CreateTable(<<>>, <<Clauses.Id>>, Tails.Close),
     CreateTable(<<"q">>, <<Clauses.Id>>, Tails.Open),
     CreateTable(<<"r">>, <<Clauses.Id, Clauses.Decimal>>, Tails.Open),
     CreateTable(<<"w">>, <<Clauses.Id>>, Tails.With),
     CreateTable(<<"b">>, <<Clauses.Bad>>, Tails.Close),
     CreateTable(<<"k">>, <<Clauses.Id, Clauses.Check>>, Tails.Close),
     OtherStatement}

\* One table t with up to MaxClauses clauses of the catalogue.
ClauseInputs ==
    {<<CreateTable(<<"t">>, cs, Tails.Close)>> :
        cs \in SeqsUpTo(ClauseCatalogue, MaxClauses) \ {<<>>}}

\* Up to MaxStmts statements of the catalogue.
StatementInputs == SeqsUpTo(StmtCatalogue, MaxStmts) \ {<<>>}

ParseInputs == ClauseInputs \cup StatementInputs

----------------------------------------------------------------------------
(* ParseSQL *)

\* "Remove leading comments but keep the rest" (lines 41-55): the lines of
\* the statement that are not blank and do not start with "--".
KeepsLine(line) ==
    Bind(TrimSpace(line), LAMBDA trimmedLine :
        ~HasPrefix(trimmedLine, <<"-", "-">>) /\ trimmedLine # <<>>)
CleanLines(stmtStr) == SelectSeq(Split(stmtStr, "\n"), KeepsLine)

\* What one iteration of the statement loop does with statement stmtStr:
\* "skip" (lines 37-39, 51-53 or not a CREATE TABLE), "error" or "table".
Skipped(stmt) ==
    [what |-> "skip", stmt |-> stmt, err |-> <<>>, table |-> <<>>,
     body |-> [found |-> FALSE, body |-> <<>>]]

ProcessStatement(stmtStr, opts) ==
    Bind(CleanLines(TrimSpace(stmtStr)), LAMBDA clean :
    IF clean = <<>> THEN Skipped(<<>>) ELSE
    Bind(Join(clean, <<"\n">>), LAMBDA stmt :
    IF ~isCreateTableStatement(stmt) THEN Skipped(stmt) ELSE
    Bind(parseCreateTableRegex(stmt, opts), LAMBDA r :
        [what |-> IF r.err # <<>> THEN "error" ELSE "table",
         stmt |-> stmt, err |-> r.err, table |-> r.table,
         body |-> MatchTableBody(stmt)])))

ParseStart ==
    /\ ppc = "start"
    /\ statements' = splitStatements(content)
    /\ ppc' = "loop"
    /\ UNCHANGED <<src, content, options, si, resTables, resErrors, retResult, retErr, plog>>

\* One iteration of "for _, stmtStr := range statements".
ParseStatement ==
    /\ ppc = "loop"
    /\ si <= Len(statements)
    /\ \E r \in {ProcessStatement(statements[si], options)} :
           /\ plog' = Append(plog, r)
           /\ IF r.what = "error" /\ ~options.IgnoreUnsupported
              THEN /\ ppc' = "failed"
                   /\ retErr' = r.err
                   /\ UNCHANGED <<si, resTables, resErrors>>
              ELSE /\ si' = si + 1
                   /\ resErrors' = IF r.what = "error" THEN Append(resErrors, r.err) ELSE resErrors
                   /\ resTables' = IF r.what = "table" THEN Append(resTables, r.table[1]) ELSE resTables
                   /\ UNCHANGED <<ppc, retErr>>
    /\ UNCHANGED <<src, content, options, statements, retResult>>

\* "return result, nil"
ParseReturn ==
    /\ ppc = "loop"
    /\ si > Len(statements)
    /\ ppc' = "done"
    /\ retResult' = <<[Tables |-> resTables, Errors |-> resErrors]>>
    /\ UNCHANGED <<src, content, options, statements, si, resTables, resErrors, retErr, plog>>

SortIdle ==
    /\ tables = <<>>
    /\ tableMap = << >>
    /\ visited = {}
    /\ visiting = {}
    /\ sorted = <<>>
    /\ stack = <<>>
    /\ ti = 1
    /\ entered = <<>>
    /\ spc = "idle"

ParseInit ==
    /\ src \in ParseInputs
    /\ content = RenderContent(src)
    /\ options \in [StrictMode : BOOLEAN, IgnoreUnsupported : BOOLEAN]
    /\ statements = <<>>
    /\ si = 1
    /\ resTables = <<>>
    /\ resErrors = <<>>
    /\ retResult = <<>>
    /\ retErr = <<>>
    /\ plog = <<>>
    /\ ppc = "start"
    /\ SortIdle
    /\ FunIdle

ParseNext ==
    /\ \/ ParseStart
       \/ ParseStatement
       \/ ParseReturn
    /\ UNCHANGED <<sortVars, funVars>>

Spec == ParseInit /\ [][ParseNext]_vars

----------------------------------------------------------------------------
(* splitStatements on raw text *)

\* The characters of the raw inputs: a letter, the statement terminator, the
\* two quotes, the escape character, the dash of a line comment, a newline.
SplitAlphabet == {"a", ";", "'", "\"", "\\", "-", "\n"}

SplitInputs == SeqsUpTo(SplitAlphabet, MaxSplitLen)

SplitInit ==
    /\ src = <<>>
    /\ content \in SplitInputs
    /\ options = [StrictMode |-> FALSE, IgnoreUnsupported |-> TRUE]
    /\ statements = <<>>
    /\ si = 1
    /\ resTables = <<>>
    /\ resErrors = <<>>
    /\ retResult = <<>>
    /\ retErr = <<>>
    /\ plog = <<>>
    /\ ppc = "start"
    /\ SortIdle
    /\ FunIdle

\* "statements := p.splitStatements(content)"
SplitNext == ParseStart /\ UNCHANGED <<sortVars, funVars>>

SpecSplit == SplitInit /\ [][SplitNext]_vars

----------------------------------------------------------------------------
(* splitTableItems on raw text *)

\* The characters of the raw table bodies: a letter, the separator, the
\* parentheses, a quote, the escape character, a space.
ItemsInit ==
    /\ input \in SeqsUpTo({"a", ",", "(", ")", "'", "\\", " "}, MaxBodyLen)
    /\ output = <<>>
    /\ fpc = "call"
    /\ SortIdle
    /\ ParseIdle

\* "items := p.splitTableItems(body)"
ItemsCall ==
    /\ fpc = "call"
    /\ output' = splitTableItems(input)
    /\ fpc' = "return"
    /\ UNCHANGED <<input, sortVars, parseVars>>

SpecItems == ItemsInit /\ [][ItemsCall]_vars

----------------------------------------------------------------------------
(* One column clause through parseColumnRegex, then MapColumnType *)

\* What the column clauses are written from.
ColumnParts ==
    [Names |-> {"id", "unit_price"},
     DecimalTypes |-> {"DECIMAL", "NUMERIC", "numeric"},
     OtherTypes |-> {"VARCHAR", "TEXT", "TIMESTAMP", "TIMESTAMPTZ", "TIMESTAMP WITH TIME ZONE",
                     "DATE", "TIME", "INTEGER", "int", "BIGINT", "SMALLINT", "BOOLEAN", "BOOL",
                     "BIGSERIAL", "SERIAL", "SMALLSERIAL", "REAL", "DOUBLE PRECISION",
                     "DOUBLE", "UUID", "JSON", "JSONB", "INT", "INT2", "INT4", "FLOAT4", "FLOAT8",
                     "MONEY", "citext", "x", "VARCHAR(MAX)", "DECIMAL()"},
     Constraints |-> {"", " NOT NULL", " UNIQUE"},
     Defaults |-> {"0", "-1", "0.00", "TRUE", "false", "NOW()", "CURRENT_TIMESTAMP", "'x'",
                   "'a,b'", "gen(a, b)", "x"}]
\* The parenthesised numbers after the type name: none, (p), (p,s), (p, s).
TypeArgs(precisions, scales) ==
    {[length |-> <<>>, scale |-> <<>>, space |-> <<>>]}
    \cup {[length |-> <<p>>, scale |-> <<>>, space |-> <<>>] : p \in precisions}
    \cup {[length |-> <<p>>, scale |-> <<sc>>, space |-> sp] :
             p \in precisions, sc \in scales, sp \in {<<>>, <<" ">>}}

RenderColumn(w) ==
    Chars(w.name) \o <<" ">> \o Chars(w.type)
    \o (IF w.args.length = <<>> THEN <<>>
        ELSE <<"(">> \o Itoa(w.args.length[1])
             \o (IF w.args.scale = <<>> THEN <<>>
                 ELSE <<",">> \o w.args.space \o Itoa(w.args.scale[1]))
             \o <<")">>)
    \o Chars(w.tail.constraints)
    \o (IF w.tail.default = <<>> THEN <<>> ELSE Chars(" DEFAULT ") \o Chars(w.tail.default[1]))

\* Every type with a few arguments and every tail; the decimal types with
\* every precision and scale.
ColumnWritings ==
    {[name |-> n, type |-> t, args |-> a, tail |-> tl] :
        n \in ColumnParts.Names, t \in ColumnParts.DecimalTypes \cup ColumnParts.OtherTypes,
        a \in TypeArgs({5}, {2}),
        tl \in {[constraints |-> c, default |-> d] :
                  c \in ColumnParts.Constraints,
                  d \in {<<>>} \cup {<<e>> : e \in ColumnParts.Defaults}}}
    \cup {[name |-> "unit_price", type |-> t, args |-> a,
           tail |-> [constraints |-> "", default |-> <<>>]] :
             t \in ColumnParts.DecimalTypes, a \in TypeArgs(1..MaxPrecision, 0..MaxScale)}

\* input.columnDef is the argument of parseColumnRegex, input.written what it
\* was written from.
ColumnInit ==
    /\ input \in {[columnDef |-> RenderColumn(w), written |-> w] : w \in ColumnWritings}
    /\ output = <<>>
    /\ fpc = "parse"
    /\ SortIdle
    /\ ParseIdle

\* "column, err := p.parseColumnRegex(item)"
ColumnParse ==
    /\ fpc = "parse"
    /\ \E r \in {parseColumnRegex(input.columnDef)} :
        /\ output' = r
        /\ fpc' = IF r.err = <<>> THEN "map" ELSE "return"
    /\ UNCHANGED <<input, sortVars, parseVars>>

\* "drizzleType, err := g.typeMapper.MapColumnType(column)"
ColumnMap ==
    /\ fpc = "map"
    /\ \E r \in {MapColumnType(output.column[1])} :
        output' = [err |-> r.err, column |-> output.column, drizzleType |-> <<r.drizzleType>>]
    /\ fpc' = "return"
    /\ UNCHANGED <<input, sortVars, parseVars>>

SpecColumn == ColumnInit /\ [][ColumnParse \/ ColumnMap]_vars

----------------------------------------------------------------------------
(* convertCase on identifiers *)

\* The identifiers: every text of two letters and the underscore up to
\* MaxNameLen characters, and the table name of the documentation. The
\* naming cases are the four constants of types.go and a value that is none
\* of them.
CaseInit ==
    /\ input \in {[name |-> n, caseType |-> c] :
                    n \in SeqsUpTo({"a", "z", "_"}, MaxNameLen) \cup {Chars("user_profiles")},
                    c \in {"camel", "pascal", "snake", "kebab", ""}}
    /\ output = <<>>
    /\ fpc = "call"
    /\ SortIdle
    /\ ParseIdle

\* "g.convertCase(table.Name, options.TableNameCase)"
CaseCall ==
    /\ fpc = "call"
    /\ output' = convertCase(input.name, input.caseType)
    /\ fpc' = "return"
    /\ UNCHANGED <<input, sortVars, parseVars>>

SpecCase == CaseInit /\ [][CaseCall]_vars

----------------------------------------------------------------------------
(* GenerateTable on one table *)

\* What the tables are made of: the column user_id in every combination of
\* NOT NULL, UNIQUE and DEFAULT, alone or next to the column id; primary
\* keys; a UNIQUE constraint over two columns; foreign keys of one and two
\* columns referencing one and two columns;
\* generator options.
TableParts ==
    [Names |-> {Chars("users"), Chars("user_profiles")},
     Id |-> [Name |-> Chars("id"), Type |-> Chars("BIGSERIAL"), Length |-> <<>>,
             Scale |-> <<>>, NotNull |-> TRUE, Unique |-> FALSE, DefaultValue |-> <<>>,
             AutoIncrement |-> TRUE],
     UserId |-> {[Name |-> Chars("user_id"), Type |-> Chars("INTEGER"), Length |-> <<>>,
                  Scale |-> <<>>, NotNull |-> n, Unique |-> u, DefaultValue |-> d,
                  AutoIncrement |-> FALSE] :
                    n \in BOOLEAN, u \in BOOLEAN, d \in {<<>>, <<Chars("0")>>}},
     PrimaryKeys |-> {<<>>, <<Chars("user_id")>>, <<Chars("id"), Chars("user_id")>>},
     Constraints |->
        {<<>>,
         <<[Name |-> Chars("unique_user"), Type |-> Chars("UNIQUE"),
            Columns |-> <<Chars("id"), Chars("user_id")>>, Expression |-> <<>>]>>},
     ForeignKeys |->
        {[Name |-> Chars("fk"), Columns |-> c, ReferencedTable |-> Chars("user_accounts"),
          ReferencedColumns |-> r] :
            c \in {<<Chars("user_id")>>, <<Chars("id"), Chars("user_id")>>},
            r \in {<<Chars("account_id")>>, <<Chars("org_id"), Chars("account_id")>>}},
     Options |->
        {DefaultGeneratorOptions,
         [TableNameCase |-> "pascal", ColumnNameCase |-> "snake", IncludeComments |-> FALSE,
          ExportPrefix |-> Chars("tbl"), IndentSize |-> 4],
         [TableNameCase |-> "snake", ColumnNameCase |-> "kebab", IncludeComments |-> TRUE,
          ExportPrefix |-> Chars("t_"), IndentSize |-> 0]}]

TableInit ==
    /\ input \in
        {[table |-> [Name |-> n, Columns |-> cs, PrimaryKey |-> pk, ForeignKeys |-> fks,
                     Indexes |-> <<>>, Constraints |-> cts],
          options |-> o] :
            n \in TableParts.Names,
            cs \in UNION {{<<c>>, <<TableParts.Id, c>>, <<c, TableParts.Id>>} :
                            c \in TableParts.UserId},
            pk \in TableParts.PrimaryKeys,
            cts \in TableParts.Constraints,
            fks \in SeqsUpTo(TableParts.ForeignKeys, MaxForeignKeys),
            o \in TableParts.Options}
    /\ output = <<>>
    /\ fpc = "call"
    /\ SortIdle
    /\ ParseIdle

\* "generatedTable, err := g.GenerateTable(table, options)"
TableCall ==
    /\ fpc = "call"
    /\ output' = GenerateTable(input.table, input.options)
    /\ fpc' = "return"
    /\ UNCHANGED <<input, sortVars, parseVars>>

SpecTable == TableInit /\ [][TableCall]_vars

----------------------------------------------------------------------------
(* GenerateSchema: the import declaration, the dependency sort, the tables *)

\* "importSet" after the first pass (lines 172-185).
ImportSet(ts) ==
    {Chars("pgTable")}
    \cup UNION {{MapColumnType(ts[i].Columns[j]).drizzleType.Function :
                    j \in 1..Len(ts[i].Columns)} : i \in 1..Len(ts)}

\* The orders "for imp := range importSet" can enumerate a map in: all of them.
RECURSIVE Enumerations(_)
Enumerations(S) ==
    IF S = {} THEN {<<>>}
    ELSE UNION {{<<x>> \o rest : rest \in Enumerations(S \ {x})} : x \in S}

\* An import list left in the order of its enumeration.
Unsorted(list, i, j) == list

\* The loops "for i ... for j := i + 1 ... if importList[i] > importList[j]
\* { swap }" from the indices i, j on (lines 194-200), 1-based.
RECURSIVE ExchangeSort(_, _, _)
ExchangeSort(list, i, j) ==
    IF i > Len(list) THEN list
    ELSE IF j > Len(list) THEN ExchangeSort(list, i + 1, i + 2)
    ELSE IF StringLess(list[j], list[i])
    THEN ExchangeSort([list EXCEPT ![i] = list[j], ![j] = list[i]], i, j + 1)
    ELSE ExchangeSort(list, i, j + 1)

\* The tables of the schemas: their columns map to five constructors, some
\* shared; posts references users, events a table that is not in the input.
SchemaColumn(name, type) ==
    [Name |-> Chars(name), Type |-> Chars(type), Length |-> <<>>, Scale |-> <<>>,
     NotNull |-> FALSE, Unique |-> FALSE, DefaultValue |-> <<>>, AutoIncrement |-> FALSE]
SchemaTable(name, columns, fks) ==
    [Name |-> Chars(name), Columns |-> columns, PrimaryKey |-> <<>>, ForeignKeys |-> fks,
     Indexes |-> <<>>, Constraints |-> <<>>]
SchemaTables ==
    {SchemaTable("users", <<SchemaColumn("id", "BIGSERIAL"), SchemaColumn("name", "VARCHAR")>>,
                 <<>>),
     SchemaTable("posts", <<SchemaColumn("id", "BIGSERIAL"), SchemaColumn("user_id", "INTEGER")>>,
                 <<[Name |-> Chars("fk_user"), Columns |-> <<Chars("user_id")>>,
                    ReferencedTable |-> Chars("users"),
                    ReferencedColumns |-> <<Chars("id")>>]>>),
     SchemaTable("events", <<SchemaColumn("doc", "JSONB"), SchemaColumn("raw", "JSON")>>,
                 <<[Name |-> Chars("fk_org"), Columns |-> <<Chars("doc")>>,
                    ReferencedTable |-> Chars("orgs"),
                    ReferencedColumns |-> <<Chars("id")>>]>>),
     SchemaTable("tags", <<SchemaColumn("id", "INT"), SchemaColumn("label", "VARCHAR")>>, <<>>),
     SchemaTable("empty", <<>>, <<>>)}

\* The call GenerateSchema(tables, options): input holds the options.
SchemaInit ==
    /\ tables \in SeqsUpTo(SchemaTables, MaxSchemaTables)
    /\ tableMap = << >>
    /\ visited = {}
    /\ visiting = {}
    /\ sorted = <<>>
    /\ stack = <<>>
    /\ ti = 1
    /\ entered = <<>>
    /\ spc = "idle"
    /\ input \in {DefaultGeneratorOptions,
                  [TableNameCase |-> "pascal", ColumnNameCase |-> "snake",
                   IncludeComments |-> FALSE, ExportPrefix |-> Chars("t"), IndentSize |-> 4]}
    /\ output = <<>>
    /\ fpc = "imports"
    /\ ParseIdle

\* Lines 167-202: the imports collected, enumerated in some order, sorted and
\* written as one declaration; then sortTablesByDependencies is called.
GenerateImports ==
    /\ fpc = "imports"
    /\ \E importList \in Enumerations(ImportSet(tables)) :
        output' = [Imports |-> <<Chars("import { ")
                                 \o Join(ExchangeSort(importList, 1, 2), Chars(", "))
                                 \o Chars(" } from 'drizzle-orm/pg-core';")>>,
                   Tables |-> <<>>,
                   Content |-> <<>>]
    /\ fpc' = "sort"
    /\ spc' = "start"
    /\ UNCHANGED <<tables, tableMap, visited, visiting, sorted, stack, ti, entered,
                   input, parseVars>>

\* Lines 208-237: the tables generated in the sorted order and the content
\* built: the imports, an empty line, the definitions with an empty line
\* between them.
GenerateTables ==
    /\ fpc = "sort"
    /\ spc = "done"
    /\ \E generated \in {[i \in 1..Len(sorted) |-> GenerateTable(sorted[i], input)]} :
        output' = [Imports |-> output.Imports,
                   Tables |-> generated,
                   Content |->
                       Join([i \in 1..Len(output.Imports) |-> output.Imports[i] \o <<"\n">>], <<>>)
                       \o <<"\n">>
                       \o Join([i \in 1..Len(generated) |-> generated[i].Definition \o <<"\n">>],
                               <<"\n">>)]
    /\ fpc' = "return"
    /\ UNCHANGED <<input, sortVars, parseVars>>

SpecSchema == SchemaInit /\ [][GenerateImports \/ SortNext \/ GenerateTables]_vars

----------------------------------------------------------------------------
(* The command of main.go: ParseSQL with the default parse options, then     *)
(* GenerateSchema with the default generator options                         *)

\* What the SQL files are written from: the clause of the column id, with
\* and without an inline PRIMARY KEY; the second column; a table-level
\* PRIMARY KEY clause or none; and what stands around the statement of
\* users: nothing, a table posts referencing users after it or before it, or
\* a second statement for users.
MainParts ==
    [Id |-> {"id BIGSERIAL PRIMARY KEY", "id BIGSERIAL NOT NULL", "id INTEGER NOT NULL PRIMARY KEY",
             "id BIGSERIAL"},
     Second |-> {"name VARCHAR(255) NOT NULL", "email TEXT NOT NULL UNIQUE"},
     Key |-> {"", ", PRIMARY KEY (id)", ", CONSTRAINT pk_users PRIMARY KEY (id)"},
     Around |-> {"alone", "posts after", "posts before", "users twice"},
     Posts |-> "CREATE TABLE posts (id BIGSERIAL PRIMARY KEY, user_id BIGINT, CONSTRAINT fk_u FOREIGN KEY (user_id) REFERENCES users(id));",
     Again |-> "CREATE TABLE users (id INTEGER);"]

\* src holds what the file was written from; parser.DefaultParseOptions
\* (parser.go:35-41) and generator.DefaultGeneratorOptions.
MainInit ==
    /\ src \in [id : MainParts.Id, second : MainParts.Second, key : MainParts.Key,
                around : MainParts.Around]
    /\ content =
        Bind(Chars("CREATE TABLE users (") \o Chars(src.id) \o Chars(", ") \o Chars(src.second)
             \o Chars(src.key) \o Chars(");"), LAMBDA users :
            CASE src.around = "alone" -> users
              [] src.around = "posts after" -> users \o <<"\n">> \o Chars(MainParts.Posts)
              [] src.around = "posts before" -> Chars(MainParts.Posts) \o <<"\n">> \o users
              [] src.around = "users twice" -> users \o <<"\n">> \o Chars(MainParts.Again))
    /\ options = [StrictMode |-> FALSE, IgnoreUnsupported |-> TRUE]
    /\ statements = <<>>
    /\ si = 1
    /\ resTables = <<>>
    /\ resErrors = <<>>
    /\ retResult = <<>>
    /\ retErr = <<>>
    /\ plog = <<>>
    /\ ppc = "start"
    /\ SortIdle
    /\ input = DefaultGeneratorOptions
    /\ output = <<>>
    /\ fpc = "idle"

\* "generator.GenerateSchemaToFile(parseResult.Tables, ...)" (main.go:162-164)
MainGenerate ==
    /\ ppc = "done"
    /\ fpc = "idle"
    /\ tables' = retResult[1].Tables
    /\ fpc' = "imports"
    /\ UNCHANGED <<tableMap, visited, visiting, sorted, stack, ti, entered, spc,
                   input, output, parseVars>>

SpecMain ==
    MainInit /\ [][ParseNext \/ MainGenerate \/ GenerateImports \/ SortNext \/ GenerateTables]_vars

----------------------------------------------------------------------------
(* Claims about the dependency sorter, checked under SpecSort *)

\* How often record t occurs in sequence s.
Count(s, t) == Cardinality({i \in 1..Len(s) : s[i] = t})

\* C1: when the sorter has returned, for every input table A that has a
\* foreign key to an input table B, the output holds B at a position strictly
\* before a position of A.
C1_ReferencedBeforeReferencing ==
    spc = "done" =>
        \A i, j \in 1..Len(tables) :
            (\E k \in 1..Len(tables[i].ForeignKeys) :
                tables[i].ForeignKeys[k].ReferencedTable = tables[j].Name)
            => \E p, q \in 1..Len(sorted) :
                   /\ p < q
                   /\ sorted[p] = tables[j]
                   /\ sorted[q] = tables[i]

\* C2: when the sorter has returned, the output is a permutation of the
\* input: same length, and every input record occurs in the output as often
\* as in the input, also when two input tables carry the same name.
C2_OutputIsPermutation ==
    spc = "done" =>
        /\ Len(sorted) = Len(tables)
        /\ \A i \in 1..Len(tables) : Count(sorted, tables[i]) = Count(tables, tables[i])


----------------------------------------------------------------------------
(* Claims about ParseSQL, checked under Spec. Statement i of the input is    *)
(* src[i]; plog[i] is what the statement loop made of it.                    *)

ClauseKinds(stmt) == {stmt.clauses[k].kind : k \in 1..Len(stmt.clauses)}

\* The column name a column clause is written with: its first word.
WrittenColumnName(clause) == SubSeq(clause.text, 1, IndexFrom(clause.text, 1, " ") - 1)

\* A CREATE TABLE statement with an identifier and a balanced body.
WellFormed(stmt) == stmt.kind = "create" /\ stmt.name # <<>> /\ stmt.tail # Tails.Open

\* A CREATE TABLE statement with a parse error in it: no identifier, a body
\* that is not closed, a column clause that does not parse, or a constraint
\* of an unsupported kind.
Offending(stmt) ==
    /\ stmt.kind = "create"
    /\ \/ stmt.name = <<>>
       \/ stmt.tail = Tails.Open
       \/ ClauseKinds(stmt) \cap {"badcolumn", "check", "unique"} # {}

OffendingStatements == {i \in 1..Len(src) : Offending(src[i])}

Returned == ppc \in {"done", "failed"}

\* C3: a CREATE TABLE statement whose body is N valid column clauses and no
\* constraint clause is parsed into a table with exactly those N columns, in
\* source order, and an empty primary key, whatever the column names are.
C3_ValidColumnsAllParsed ==
    \A i \in 1..Len(plog) :
        (WellFormed(src[i]) /\ src[i].tail = Tails.Close /\ ClauseKinds(src[i]) = {"column"})
        => /\ plog[i].what = "table"
           /\ [k \in 1..Len(plog[i].table[1].Columns) |-> plog[i].table[1].Columns[k].Name]
                = [k \in 1..Len(src[i].clauses) |-> WrittenColumnName(src[i].clauses[k])]
           /\ plog[i].table[1].PrimaryKey = <<>>

\* The diagnostics lenient parsing owes statement stmt: one for a statement
\* whose name or body cannot be extracted, else one for every column clause
\* that does not parse and every constraint clause that is not recognized.
DiagnosticsOwed(stmt) ==
    IF stmt.kind # "create" THEN 0
    ELSE IF ~WellFormed(stmt) THEN 1
    ELSE Cardinality({k \in 1..Len(stmt.clauses) :
                         stmt.clauses[k].kind \in {"badcolumn", "check", "unique"}})

RECURSIVE DiagnosticsOwedUpTo(_)
DiagnosticsOwedUpTo(n) ==
    IF n = 0 THEN 0 ELSE DiagnosticsOwedUpTo(n - 1) + DiagnosticsOwed(src[n])

\* C4: under lenient parsing (IgnoreUnsupported = TRUE) ParseSQL returns a
\* result whose Errors hold one diagnostic for every parse error of the input
\* (statement without name or body, column clause that does not parse,
\* constraint clause that is not recognized), and whose Tables hold one table
\* for every statement whose name and body can be extracted.
C4_LenientRecordsEveryError ==
    (Returned /\ options.IgnoreUnsupported)
    => /\ ppc = "done"
       /\ Len(retResult[1].Errors) = DiagnosticsOwedUpTo(Len(src))
       /\ Len(retResult[1].Tables) = Cardinality({i \in 1..Len(src) : WellFormed(src[i])})

\* C5: with IgnoreUnsupported = FALSE, the first offending CREATE TABLE
\* statement makes ParseSQL return an error and no ParseResult, and no
\* statement after it is parsed.
C5_StrictAbortsAtFirstError ==
    (Returned /\ ~options.IgnoreUnsupported /\ OffendingStatements # {})
    => /\ ppc = "failed"
       /\ retErr # <<>>
       /\ retResult = <<>>
       /\ Len(plog) = Min(OffendingStatements)
       /\ plog[Len(plog)].what = "error"

\* C6: with StrictMode = TRUE an input holding an unsupported or unparseable
\* construct makes ParseSQL return an error instead of a ParseResult,
\* whatever the other options are.
C6_StrictModeFails ==
    (Returned /\ options.StrictMode /\ OffendingStatements # {})
    => (ppc = "failed" /\ retErr # <<>> /\ retResult = <<>>)

\* C7: with IgnoreUnsupported = FALSE, a statement holding a constraint clause
\* that does not have the shape of a supported constraint (a FOREIGN KEY
\* without CONSTRAINT <name>, a PRIMARY KEY without a parenthesized column
\* list, a CHECK, a UNIQUE) yields an error: the clause is not dropped
\* silently.
C7_StrictReportsEveryConstraint ==
    \A i \in 1..Len(plog) :
        (/\ ~options.IgnoreUnsupported
         /\ WellFormed(src[i])
         /\ src[i].tail = Tails.Close
         /\ ClauseKinds(src[i]) \cap {"fk_unnamed", "pk_malformed", "check", "unique"} # {})
        => plog[i].what = "error"

\* C8: the body extracted from a CREATE TABLE statement is the text between
\* the "(" after the table name and the ")" that balances it; what follows
\* that ")" is not part of the body.
C8_BodyIsBalancedText ==
    \A i \in 1..Len(plog) :
        WellFormed(src[i])
        => (plog[i].body.found /\ plog[i].body.body = BodyText(src[i]))

\* C9: a statement recognized as CREATE TABLE that has no identifier, or
\* whose body is not closed, yields an error and no table.
C9_NoNameOrUnbalancedIsError ==
    \A i \in 1..Len(plog) :
        (src[i].kind = "create" /\ ~WellFormed(src[i]))
        => (plog[i].what = "error" /\ plog[i].table = <<>>)

----------------------------------------------------------------------------
(* Claims about splitStatements, checked under SpecSplit *)

\* Whether the text holds no line comment: every "--" lies inside a quoted
\* string.
NoLineComment(c) ==
    \A p \in 1..(Len(c) - 1) :
        MatchAt(c, p, <<"-", "-">>) => QuoteScan(c, 1, Len(c), "").before[p] # ""

\* C10: for a text without line comments, the statements are the non-blank
\* pieces of the text between the semicolons outside quoted strings, in
\* source order and without the semicolons, the piece after the last
\* semicolon included.
C10_SplitsAtUnquotedSemicolons ==
    (ppc = "loop" /\ src = <<>> /\ NoLineComment(content))
    => statements = SelectSeq(Pieces(content, StatementCuts(content)), NonBlank)

\* The reading of the text a scan that knows line comments makes: before the
\* character at position i it is inside a quoted string ("'" or "\""),
\* inside a line comment ("--"), or in neither ("").
RECURSIVE CommentAwareBefore(_, _)
CommentAwareBefore(s, i) ==
    IF i = 1 THEN ""
    ELSE Bind(CommentAwareBefore(s, i - 1), LAMBDA m :
             IF m = "--" THEN (IF s[i - 1] = "\n" THEN "" ELSE "--")
             ELSE IF m # "" THEN QuoteStep(m, s, i - 1)
             ELSE IF MatchAt(s, i - 1, <<"-", "-">>) THEN "--"
             ELSE QuoteStep("", s, i - 1))

\* The semicolons outside quoted strings and outside line comments.
CommentAwareCuts(s) == {i \in 1..Len(s) : s[i] = ";" /\ CommentAwareBefore(s, i) = ""}

\* C11: a semicolon inside a line comment is not a statement boundary and a
\* quote inside a line comment opens no string, on whichever line the comment
\* stands: the statements are the non-blank pieces of the text between the
\* semicolons outside strings and comments. (Stated for the texts whose last
\* line holds no "--", which the splitter leaves as they are before it scans
\* them.)
C11_CommentsDoNotSplit ==
    (ppc = "loop" /\ src = <<>> /\ StripComment(content) = content)
    => statements = SelectSeq(Pieces(content, CommentAwareCuts(content)), NonBlank)

----------------------------------------------------------------------------
(* Claims about splitTableItems, checked under SpecItems *)

\* The reading of a table body: before the character at position i the scan
\* is inside the string opened by q ("" outside strings), the character at i
\* is escaped by a backslash in that string (esc), and depth parentheses are
\* open outside strings.
RECURSIVE BodyReadingBefore(_, _)
BodyReadingBefore(s, i) ==
    IF i = 1 THEN [q |-> "", esc |-> FALSE, depth |-> 0]
    ELSE Bind(BodyReadingBefore(s, i - 1), LAMBDA r :
         Bind(s[i - 1], LAMBDA c :
             IF r.q # ""
             THEN IF r.esc THEN [r EXCEPT !.esc = FALSE]
                  ELSE IF c = "\\" THEN [r EXCEPT !.esc = TRUE]
                  ELSE IF c = r.q THEN [r EXCEPT !.q = ""]
                  ELSE r
             ELSE IF c = "'" \/ c = "\"" THEN [r EXCEPT !.q = c]
             ELSE IF c = "(" THEN [r EXCEPT !.depth = @ + 1]
             ELSE IF c = ")" THEN [r EXCEPT !.depth = @ - 1]
             ELSE r))

\* The commas at parenthesis depth 0 outside quoted strings.
TopLevelCommas(s) ==
    {i \in 1..Len(s) :
        /\ s[i] = ","
        /\ BodyReadingBefore(s, i).q = ""
        /\ BodyReadingBefore(s, i).depth = 0}

\* C12: the items are the non-blank pieces of the body between the commas at
\* parenthesis depth 0 outside quoted strings, trimmed and in source order.
C12_SplitsAtTopLevelCommas ==
    fpc = "return"
    => output = TrimEach(SelectSeq(Pieces(input, TopLevelCommas(input)), NonBlank))

----------------------------------------------------------------------------
(* Claims about column clauses, checked under SpecColumn *)

\* The column parseColumnRegex returned.
ParsedColumn == output.column[1]

\* C13: when a column clause ends in DEFAULT <expr>, the default value
\* recorded on the Column is the whole expression, commas inside a quoted
\* literal or inside parentheses included.
C13_DefaultIsWholeExpression ==
    (fpc \in {"map", "return"} /\ output.err = <<>> /\ input.written.tail.default # <<>>)
        => ParsedColumn.DefaultValue = <<Chars(input.written.tail.default[1])>>

\* Whether MapColumnType was called, and what it returned.
Mapped == fpc = "return" /\ "drizzleType" \in DOMAIN output
Descriptor == output.drizzleType[1]

\* The type names the switch of MapColumnType has a case for.
MappingTable ==
    {Chars(n) : n \in
        {"BIGSERIAL", "SERIAL", "SMALLSERIAL", "BIGINT", "INTEGER", "INT", "INT4", "SMALLINT",
         "INT2", "VARCHAR", "TEXT", "BOOLEAN", "BOOL", "TIMESTAMP WITH TIME ZONE",
         "TIMESTAMPTZ", "TIMESTAMP", "DATE", "TIME", "DECIMAL", "NUMERIC", "REAL", "FLOAT4",
         "DOUBLE PRECISION", "DOUBLE", "FLOAT8", "UUID", "JSON", "JSONB"}}

\* C14: MapColumnType returns, for every Column, no error and a descriptor
\* with a non-empty constructor name; a type name outside the mapping table
\* gives the text constructor with the quoted column name as its only argument.
C14_MapColumnTypeIsTotal ==
    Mapped =>
        /\ output.err = <<>>
        /\ output.drizzleType # <<>>
        /\ Descriptor.Function # <<>>
        /\ ToUpper(ParsedColumn.Type) \notin MappingTable =>
            /\ Descriptor.Function = Chars("text")
            /\ Descriptor.Args = <<Quoted(ParsedColumn.Name)>>

\* An unknown type name and a type whose parentheses hold no number were
\* mapped to text.
C14_Witness ==
    /\ Mapped
    /\ ParsedColumn.Type \in {Chars("MONEY"), Chars("VARCHAR(MAX)")}
    /\ Descriptor.Function = Chars("text")

\* The default modifiers among the options of a descriptor.
DefaultModifiers(opts) == SelectSeq(opts, LAMBDA o : HasPrefix(o, Chars("default")))

\* A temporal type: its name holds TIMESTAMP, DATE or TIME.
IsTemporal(type) ==
    \E n \in {"TIMESTAMP", "DATE", "TIME"} : Contains(ToUpper(type), Chars(n))

\* A quoted literal: it opens and closes with a single quote.
IsQuotedLiteral(s) == Len(s) >= 2 /\ s[1] = "'" /\ s[Len(s)] = "'"

\* A numeric literal: an optional sign, digits, and optionally a point
\* followed by digits.
IsNumericLiteral(s) ==
    \E from \in {1, 2} : \E point \in from..(Len(s) + 1) :
        /\ from = 2 => (s # <<>> /\ s[1] \in {"+", "-"})
        /\ point > from
        /\ \A i \in from..(point - 1) : IsDigit(s[i])
        /\ point <= Len(s) => (s[point] = "." /\ point < Len(s))
        /\ \A i \in (point + 1)..Len(s) : IsDigit(s[i])

\* The default modifier the rules of the claim choose, first match first.
ChosenDefault(column) ==
    Bind(column.DefaultValue[1], LAMBDA d :
        IF ToUpper(d) \in {Chars("CURRENT_TIMESTAMP"), Chars("NOW()")} /\ IsTemporal(column.Type)
        THEN Chars("defaultNow()")
        ELSE IF ToUpper(d) = Chars("TRUE") THEN Chars("default(true)")
        ELSE IF ToUpper(d) = Chars("FALSE") THEN Chars("default(false)")
        ELSE IF IsQuotedLiteral(d) THEN Chars("default(") \o d \o Chars(")")
        ELSE IF IsNumericLiteral(d) THEN Chars("default(") \o d \o Chars(")")
        ELSE Chars("default(") \o Quoted(d) \o Chars(")"))

\* C15: a column with a default-value expression gets exactly one default
\* modifier, the one the first matching rule chooses: time-now on a temporal
\* type, TRUE/FALSE, a quoted literal, a numeric literal (integer or
\* decimal, unquoted), anything else quoted.
C15_OneDefaultModifierByFirstRule ==
    (Mapped /\ ParsedColumn.DefaultValue # <<>>)
        => DefaultModifiers(Descriptor.Options) = <<ChosenDefault(ParsedColumn)>>

\* The argument object a decimal column is declared to get: none without
\* parentheses, the precision for (p), precision and scale for (p,s).
DeclaredDecimalArgs(a) ==
    IF a.length = <<>> THEN <<>>
    ELSE IF a.scale = <<>>
    THEN <<Chars("{ precision: ") \o Itoa(a.length[1]) \o Chars(" }")>>
    ELSE <<Chars("{ precision: ") \o Itoa(a.length[1]) \o Chars(", scale: ")
           \o Itoa(a.scale[1]) \o Chars(" }")>>

\* C17: a column declared DECIMAL(p,s) or NUMERIC(p,s) is parsed and mapped
\* to decimal with precision p and scale s, declared with (p) to decimal with
\* precision p only, and declared without parentheses to decimal with the
\* column name alone.
C17_DecimalPrecisionAndScale ==
    (Mapped /\ input.written.type \in ColumnParts.DecimalTypes)
        => /\ Descriptor.Function = Chars("decimal")
           /\ Descriptor.Args = <<Quoted(Chars(input.written.name))>>
                                \o DeclaredDecimalArgs(input.written.args)

\* NUMERIC(10, 1), the largest precision with a scale after a space, was
\* mapped to precision 10 and scale 1; a bare DECIMAL was mapped too.
C17_Witness ==
    /\ Mapped
    /\ input.written.type = "NUMERIC"
    /\ input.written.args = [length |-> <<10>>, scale |-> <<1>>, space |-> <<" ">>]
    /\ Descriptor.Args = <<Chars("'unit_price'"), Chars("{ precision: 10, scale: 1 }")>>

----------------------------------------------------------------------------
(* Claims about convertCase, checked under SpecCase *)

\* An identifier made of lowercase words joined by underscores: letters and
\* underscores, no underscore first, last or after another one.
IsSnakeIdentifier(s) ==
    /\ s # <<>>
    /\ \A i \in 1..Len(s) :
        \/ s[i] \in Range(LowerLetters)
        \/ s[i] = "_" /\ i > 1 /\ i < Len(s) /\ s[i - 1] # "_"

\* The identifier read letter by letter: the separators dropped (or kept, or
\* replaced), the first letter of a word upper-cased or not.
Reworded(s, first, later, sep) ==
    [i \in 1..Len(s) |->
        IF s[i] = "_" THEN sep
        ELSE IF i = 1 THEN first[s[i]]
        ELSE IF s[i - 1] = "_" THEN later[s[i]]
        ELSE <<s[i]>>]

RECURSIVE Flatten(_)
Flatten(ss) == IF ss = <<>> THEN <<>> ELSE Head(ss) \o Flatten(Tail(ss))

AsIs == [c \in Range(LowerLetters) |-> <<c>>]
Capital == [c \in Range(LowerLetters) |-> <<UpperOf[c]>>]

\* C19: on lowercase words joined by underscores, camel keeps the first
\* word and capitalizes the later ones, pascal capitalizes every word, both
\* without separators; snake changes nothing; kebab replaces each underscore
\* by a hyphen.
C19_NamingCases ==
    (fpc = "return" /\ IsSnakeIdentifier(input.name)) =>
        /\ input.caseType = "camel" =>
            output = Flatten(Reworded(input.name, AsIs, Capital, <<>>))
        /\ input.caseType = "pascal" =>
            output = Flatten(Reworded(input.name, Capital, Capital, <<>>))
        /\ input.caseType = "snake" => output = input.name
        /\ input.caseType = "kebab" =>
            output = Flatten(Reworded(input.name, AsIs, AsIs, <<"-">>))

\* user_profiles was converted to userProfiles.
C19_Witness ==
    /\ fpc = "return"
    /\ input = [name |-> Chars("user_profiles"), caseType |-> "camel"]
    /\ output = Chars("userProfiles")

----------------------------------------------------------------------------
(* Claims about GenerateTable, checked under SpecTable *)

\* The lines of the definition GenerateTable returned, and the line of
\* column i: the columns follow the header, which follows the comment.
DefinitionLines == Split(output.Definition, "\n")
HeaderLineIndex == IF input.options.IncludeComments THEN 2 ELSE 1
EmittedColumnLine(i) == DefinitionLines[HeaderLineIndex + i]

\* The foreign keys of the table whose only local column is this column and
\* which reference exactly one column.
SimpleForeignKeys(table, column) ==
    {k \in 1..Len(table.ForeignKeys) :
        /\ table.ForeignKeys[k].Columns = <<column.Name>>
        /\ Len(table.ForeignKeys[k].ReferencedColumns) = 1}

\* The modifiers of a column in the order of the claim.
ClaimedModifiers(table, column, opts) ==
    (IF column.NotNull THEN Chars(".notNull()") ELSE <<>>)
    \o (IF column.Unique THEN Chars(".unique()") ELSE <<>>)
    \o Join([k \in 1..Len(DefaultModifiers(MapColumnType(column).drizzleType.Options)) |->
                <<".">> \o DefaultModifiers(MapColumnType(column).drizzleType.Options)[k]], <<>>)
    \o (IF column.Name \in Range(table.PrimaryKey) THEN Chars(".primaryKey()") ELSE <<>>)
    \o (IF SimpleForeignKeys(table, column) = {} THEN <<>>
        ELSE Bind(table.ForeignKeys[Min(SimpleForeignKeys(table, column))], LAMBDA fk :
                Chars(".references(() => ")
                \o convertCase(fk.ReferencedTable, opts.TableNameCase) \o <<".">>
                \o convertCase(fk.ReferencedColumns[1], opts.ColumnNameCase) \o <<")">>))

ConstructorCall(column) ==
    MapColumnType(column).drizzleType.Function \o <<"(">>
    \o Join(MapColumnType(column).drizzleType.Args, Chars(", ")) \o <<")">>

\* C16: each column line is the constructor call followed by notNull() iff
\* NOT NULL, unique() iff UNIQUE, the default modifier, primaryKey() iff the
\* column is in the primary key, and one references(...) exactly when the
\* column is the sole local column of a foreign key with exactly one
\* referenced column.
C16_ModifiersInFixedOrder ==
    fpc = "return" =>
        \A i \in 1..Len(input.table.Columns) :
            EmittedColumnLine(i) =
                [k \in 1..input.options.IndentSize |-> " "]
                \o convertCase(input.table.Columns[i].Name, input.options.ColumnNameCase)
                \o Chars(": ") \o ConstructorCall(input.table.Columns[i])
                \o ClaimedModifiers(input.table, input.table.Columns[i], input.options)
                \o (IF i < Len(input.table.Columns) THEN <<",">> ELSE <<>>)

----------------------------------------------------------------------------
(* Claims about GenerateSchema, checked under SpecSchema *)

\* pgTable and the constructor name of every column of every input table.
NeededNames ==
    {Chars("pgTable")}
    \cup {MapColumnType(c).drizzleType.Function :
            c \in UNION {Range(tables[i].Columns) : i \in 1..Len(tables)}}

\* The needed names, each once, in ascending order: the k-th is the name
\* with k - 1 needed names before it.
AscendingNames ==
    [k \in 1..Cardinality(NeededNames) |->
        CHOOSE n \in NeededNames :
            Cardinality({m \in NeededNames : StringLess(m, n)}) = k - 1]

ImportDeclaration ==
    Chars("import { ") \o Join(AscendingNames, Chars(", "))
    \o Chars(" } from 'drizzle-orm/pg-core';")

C21_TableSuffixInDeclarations ==
    (fpc = "return" /\ input = DefaultGeneratorOptions) =>
        \A i \in 1..Len(output.Tables) :
            /\ Contains(output.Tables[i].Definition,
                        Chars("export const ") \o convertCase(sorted[i].Name, "camel")
                        \o Chars("Table"))
            /\ \A k \in 1..Len(sorted[i].ForeignKeys) :
                (/\ Len(sorted[i].ForeignKeys[k].Columns) = 1
                 /\ Len(sorted[i].ForeignKeys[k].ReferencedColumns) = 1)
                => Contains(output.Tables[i].Definition,
                            Chars("references(() => ")
                            \o convertCase(sorted[i].ForeignKeys[k].ReferencedTable, "camel")
                            \o Chars("Table.")
                            \o convertCase(sorted[i].ForeignKeys[k].ReferencedColumns[1], "camel")
                            \o <<")">>)

\* C22: for a table with a table-level UNIQUE constraint over several
\* columns, the definition holds a declaration unique('<constraint
\* name>').on(...) naming every constrained column.
C22_UniqueConstraintDeclared ==
    fpc = "return" =>
        \A k \in 1..Len(input.table.Constraints) :
            (/\ input.table.Constraints[k].Type = Chars("UNIQUE")
             /\ Len(input.table.Constraints[k].Columns) > 1)
            => /\ Contains(output.Definition,
                           Chars("unique('") \o input.table.Constraints[k].Name \o Chars("').on("))
               /\ \A c \in Range(input.table.Constraints[k].Columns) :
                    Contains(output.Definition,
                             output.ExportName \o <<".">>
                             \o convertCase(c, input.options.ColumnNameCase))

----------------------------------------------------------------------------
(* Claims about the command, checked under SpecMain *)

\* The definition generated for the table of that name (the first one).
DefinitionOf(name) ==
    output.Tables[Min({i \in 1..Len(output.Tables) :
                        output.Tables[i].OriginalName = Chars(name)})].Definition

\* The line of the column id in the definition of users.
IdLineOfUsers ==
    Bind(Split(DefinitionOf("users"), "\n"), LAMBDA lines :
        lines[Min({k \in 1..Len(lines) : HasPrefix(TrimSpace(lines[k]), Chars("id: "))})])

\* C23: a column declared with an inline PRIMARY KEY is emitted with the
\* primaryKey() modifier, like a column named in a table-level PRIMARY KEY.
C23_InlinePrimaryKeyEmitted ==
    (fpc = "return" /\ src.around # "users twice"
        /\ (Contains(Chars(src.id), Kw.PrimaryKey) \/ src.key # ""))
    => Contains(IdLineOfUsers, Chars(".primaryKey()"))

----------------------------------------------------------------------------
(* Claims about naming options, checked under SpecTable *)

\* The first position at which p occurs in str, 0 when it does not occur.
FirstAt(str, p) ==
    Bind({i \in 1..Len(str) : str[i] = p[1] /\ MatchAt(str, i, p)}, LAMBDA at :
        IF at = {} THEN 0 ELSE Min(at))

\* A column line without its identifiers: the text after the key and its
\* colon up to the separating comma, with the target of
\* references(() => ...) blanked.
WithoutIdentifiers(line) ==
    Bind(SubSeq(line, FirstAt(line, Chars(": ")) + 2,
                IF line[Len(line)] = "," THEN Len(line) - 1 ELSE Len(line)), LAMBDA call :
    Bind(FirstAt(call, Chars(".references(() => ")), LAMBDA r :
        IF r = 0 THEN call
        ELSE Bind(SubSeq(call, r + 18, Len(call)), LAMBDA target :
                SubSeq(call, 1, r + 17) \o <<"*">>
                \o SubSeq(target, FirstAt(target, <<")">>), Len(target)))))

NamingCases == {"camel", "pascal", "snake", "kebab"}

----------------------------------------------------------------------------
(* Claims about the tables of a parse result *)

\* C25: no two entries of Tables in a returned ParseResult have the same
\* name.
C25_TableNamesDistinct ==
    ppc = "done" =>
        \A i \in 1..Len(retResult[1].Tables), j \in 1..Len(retResult[1].Tables) :
            retResult[1].Tables[i].Name = retResult[1].Tables[j].Name => i = j

----------------------------------------------------------------------------
(* Claims about cycles and termination of the dependency sorter *)

\* Table n of the lookup map has a foreign key to table m of the map.
MapReferences(n, m) ==
    \E k \in 1..Len(tableMap[n].ForeignKeys) : tableMap[n].ForeignKeys[k].ReferencedTable = m

\* m is reached from n along at most k foreign keys between tables of the map.
RECURSIVE MapReaches(_, _, _)
MapReaches(n, m, k) ==
    /\ k > 0
    /\ \/ MapReferences(n, m)
       \/ \E x \in DOMAIN tableMap : MapReferences(n, x) /\ MapReaches(x, m, k - 1)

\* The tables the depth-first visit reaches again while they are in
\* progress: those on a foreign-key cycle.
TablesOnCycle == {n \in DOMAIN tableMap : MapReaches(n, n, Cardinality(DOMAIN tableMap))}

\* C26: the sorter returns an order only when its visit never reached a
\* table still in progress; on a foreign-key cycle or a self-reference it
\* reports the cycle instead.
C26_CycleIsDiagnosed ==
    spc = "done" => TablesOnCycle = {}

DistinctNames(ts) == \A i, j \in 1..Len(ts) : ts[i].Name = ts[j].Name => i = j

\* Table i of ts has a foreign key to table j of ts.
References(ts, i, j) ==
    \E k \in 1..Len(ts[i].ForeignKeys) : ts[i].ForeignKeys[k].ReferencedTable = ts[j].Name

\* The position of table t in the output.
PositionOf(t) == CHOOSE p \in 1..Len(sorted) : sorted[p] = t

C28_TerminatesVisitingOnce ==
    /\ <>(spc = "done")
    /\ [](/\ \A p, q \in 1..Len(entered) : entered[p] = entered[q] => p = q
          /\ visiting = {stack[k].name : k \in 1..Len(stack)}
          /\ spc = "done" =>
                /\ visiting = {}
                /\ \A n \in DOMAIN tableMap :
                      Cardinality({p \in 1..Len(sorted) : sorted[p].Name = n}) = 1)

\* The sorter returned on a and b referencing each other and c referencing
\* itself, having entered each once.
C28_Witness ==
    /\ spc = "done"
    /\ tables = <<[Name |-> "a", ForeignKeys |-> <<FK("b")>>],
                  [Name |-> "b", ForeignKeys |-> <<FK("a")>>],
                  [Name |-> "c", ForeignKeys |-> <<FK("c")>>]>>
    /\ entered = <<"a", "b", "c">>
    /\ visiting = {}
    /\ Len(sorted) = 3

----------------------------------------------------------------------------
(* Claims about reference targets, checked under SpecSchema *)

\* The identifier a definition exports: the text between "export const "
\* and " = pgTable".
ExportedIdentifier(definition) ==
    SubSeq(definition, FirstAt(definition, Chars("export const ")) + 13,
           FirstAt(definition, Chars(" = pgTable")) - 1)

\* The key under which a definition emits the column that is constructed
\* with the SQL name c: the text before the colon of its line.
EmittedKey(definition, c) ==
    Bind(Split(definition, "\n"), LAMBDA lines :
    Bind(TrimSpace(lines[Min({k \in 1..Len(lines) :
                    Contains(lines[k], Chars("('") \o c \o <<"'">>)
                    /\ ~Contains(lines[k], Chars("pgTable("))})]), LAMBDA line :
        SubSeq(line, 1, FirstAt(line, Chars(": ")) - 1)))

\* C29: under every option set, the reference emitted for a one-column
\* foreign key to a generated table names the identifier that table is
\* exported under and the key its column is emitted under.
C29_ReferencesNameExports ==
    fpc = "return" =>
        \A i \in 1..Len(sorted), j \in 1..Len(sorted) :
            \A k \in 1..Len(sorted[i].ForeignKeys) :
                (/\ sorted[i].ForeignKeys[k].ReferencedTable = sorted[j].Name
                 /\ Len(sorted[i].ForeignKeys[k].Columns) = 1
                 /\ Len(sorted[i].ForeignKeys[k].ReferencedColumns) = 1)
                => Contains(output.Tables[i].Definition,
                       Chars("references(() => ")
                       \o ExportedIdentifier(output.Tables[j].Definition) \o <<".">>
                       \o EmittedKey(output.Tables[j].Definition,
                                     sorted[i].ForeignKeys[k].ReferencedColumns[1])
                       \o <<")">>)

----------------------------------------------------------------------------
(* Claims about type names, checked under SpecColumn *)

\* C30: the clause <name> <TYPE>, for a type name of the mapping table
\* (names with digits and names of several words included), parses without
\* error to a Column with that type name, and mapping it gives the
\* constructor the table assigns to the name.
C30_TypeNameSurvivesParsing ==
    (/\ fpc \in {"map", "return"}
     /\ ToUpper(Chars(input.written.type)) \in MappingTable
     /\ input.written.args.length = <<>>
     /\ input.written.tail = [constraints |-> "", default |-> <<>>])
    => /\ output.err = <<>>
       /\ ToUpper(ParsedColumn.Type) = ToUpper(Chars(input.written.type))
       /\ Mapped =>
            Descriptor.Function =
                MapColumnType([ParsedColumn EXCEPT !.Type = Chars(input.written.type)])
                    .drizzleType.Function

============================================================================
